---- MODULE Spec2Model ----
(***************************************************************************)
(* A model of cfctl's dynamic dispatch engine (pkg/transport/service.go).  *)
(*                                                                         *)
(* Strings are sequences of tokens.  The separators the code splits on     *)
(* ("/", ":", ".", "=", ",") are tokens of their own and every other token *)
(* is a run of characters holding no separator, so strings.Split, Contains,*)
(* HasPrefix, HasSuffix, TrimPrefix and Join act on token sequences as     *)
(* they act on the characters.                                             *)
(***************************************************************************)
EXTENDS Integers, Sequences, FiniteSets, TLC

(***************************************************************************)
(* Bounds of the model.                                                    *)
(***************************************************************************)
\* longest reflected service list
MaxServices == 3
\* most key=value tokens (-p) on one command line
MaxParams == 2
\* longest result list whose items are drawn from every kind of value
MaxRows == 3
\* most messages a server stream delivers before it ends
MaxMsgs == 3

\* the largest number a parameter value or a page option holds
MaxNumber == 15

(***************************************************************************)
(* package strings                                                         *)
(***************************************************************************)
HasPrefix(s, prefix) ==
    /\ Len(prefix) <= Len(s)
    /\ SubSeq(s, 1, Len(prefix)) = prefix

HasSuffix(s, suffix) ==
    /\ Len(suffix) <= Len(s)
    /\ SubSeq(s, Len(s) - Len(suffix) + 1, Len(s)) = suffix

\* strings.Index, 1-based; 0 when substr does not occur
Index(s, substr) ==
    LET hits == { i \in 1..(Len(s) - Len(substr) + 1) :
                      SubSeq(s, i, i + Len(substr) - 1) = substr }
    IN  IF hits = {} THEN 0
        ELSE CHOOSE i \in hits : \A j \in hits : i <= j

Contains(s, substr) == Index(s, substr) # 0

TrimPrefix(s, prefix) ==
    IF HasPrefix(s, prefix) THEN SubSeq(s, Len(prefix) + 1, Len(s)) ELSE s

RECURSIVE Split(_, _)
Split(s, sep) ==
    LET i == Index(s, sep)
    IN  IF i = 0 THEN << s >>
        ELSE << SubSeq(s, 1, i - 1) >>
                 \o Split(SubSeq(s, i + Len(sep), Len(s)), sep)

\* strings.SplitN(s, sep, 2)
SplitN2(s, sep) ==
    LET i == Index(s, sep)
    IN  IF i = 0 THEN << s >>
        ELSE << SubSeq(s, 1, i - 1), SubSeq(s, i + Len(sep), Len(s)) >>

RECURSIVE Join(_, _)
Join(elems, sep) ==
    IF Len(elems) = 0 THEN << >>
    ELSE IF Len(elems) = 1 THEN elems[1]
    ELSE elems[1] \o sep \o Join(Tail(elems), sep)

\* all sequences over S of length at most n
SeqsUpTo(S, n) == UNION { [1..k -> S] : k \in 0..n }

VARIABLES
    \* ---- discoverService ----
    services,          \* refClient.ListServices()
    dServiceName,      \* serviceName argument
    dResourceName,     \* resourceName argument
    listServicesFails, \* refClient.ListServices() returns an error
    dpc,               \* "call" before discoverService ran, "returned" after
    discovered,        \* what discoverService returned
    \* ---- parseParameters ----
    fileParameter,     \* options.FileParameter and what reading it yields
    jsonParameter,     \* options.JSONParameter
    parameters,        \* options.Parameters
    ppc,               \* "call" before parseParameters ran, "returned" after
    parsedOut,         \* what parseParameters returned
    \* ---- FetchService, post-processing of the response ----
    results,           \* respMap["results"] as decoded from the response
    sortBy,            \* options.SortBy
    spc,               \* the statement the post-processing is at
    sorted,            \* respMap["results"] after the sort step
    postVerb,          \* verb, as lines 322-366 test it
    postFormat,        \* options.OutputFormat, as line 321 tests it
    rows,              \* options.Rows
    columns,           \* options.Columns
    limited,           \* respMap["results"] after the row limit
    filteredResults,   \* respMap["results"] after the column filter
    \* ---- one invocation of FetchService ----
    pc,                \* the statement the invocation is at
    endpoint,          \* config.Environments[config.Environment].Endpoint
    serviceName,       \* serviceName argument
    verb,              \* verb argument
    resourceName,      \* resourceName argument
    environment,       \* config.Environment
    token,             \* config.Environments[config.Environment].Token
    outputFormat,      \* options.OutputFormat
    copyToClipboard,   \* options.CopyToClipboard
    outputFormatExplicit, \* options.OutputFormatExplicit
    page,              \* options.Page
    pageSize,          \* options.PageSize
    optParameters,     \* options.Parameters
    aliases,           \* configs.ListAliases()[serviceName]
    options0,          \* the caller's FetchOptions value before the call
    callerOptions,     \* the caller's FetchOptions value now
    usesNewOptions,    \* options points to the value built at line 282
    request,           \* the request message built at lines 603-618
    apiEndpoint,       \* result of configs.GetAPIEndpoint
    identityEndpoint,  \* result of configs.GetIdentityEndpoint
    hasIdentityService,
    collabErr,         \* which discovery collaborator call failed, if any
    conn,              \* FetchService's connection: "nil", "open", "closed"
    refClient,         \* FetchService's reflection client
    fetchCalled,       \* fetchJSONResponse has been entered
    fconn,             \* fetchJSONResponse's connection
    frefClient,        \* fetchJSONResponse's reflection client
    dialLog,           \* the targets handed to grpc.Dial, in order
    fullServiceName,   \* what discoverService returned to fetchJSONResponse
    streamed,          \* the method was dispatched as server-streaming
    received,          \* the messages stream.RecvMsg delivered, in order
    allResponses,      \* fetchJSONResponse's allResponses
    remoteStatus,      \* the status a failed remote call carried
    jsonBytes,         \* fetchJSONResponse's result
    fetchErr,          \* fetchJSONResponse's error
    respMap,           \* FetchService's respMap
    retErr,            \* the error FetchService returned
    \* ---- process start: init and the cache loader goroutine ----
    ipc,               \* the statement init is at
    lpc,               \* the statement the loader goroutine is at
    osArgs,            \* os.Args[1]
    initEndpoint,      \* config.Endpoint as loadConfig reads it
    cachedEndpointsMap,\* the package variable of line 280
    endpoints,         \* the loader's local result of loadCachedEndpoints
    doneReceived,      \* init received the loader's value from done
    timedOut,          \* init took the time.After branch
    lateInstall,       \* the loader assigned line 345 after the timeout
    cacheReads,        \* what init's reads of cachedEndpointsMap observed
    liveStored,        \* line 572 has stored the fetched map
    registered,        \* the service commands added to rootCmd
    \* ---- printTable: the interactive pager ----
    tpc,               \* the statement printTable is at
    tableResults,      \* data["results"]
    noPaging,          \* options.NoPaging
    tablePageSize,     \* options.PageSize
    currentPage,       \* printTable's currentPage
    searchTerm,        \* printTable's searchTerm
    tableFiltered,     \* printTable's filteredResults
    totalPages,        \* printTable's totalPages
    startIdx,          \* printTable's startIdx
    endIdx,            \* printTable's endIdx
    \* ---- WatchResource ----
    wpc,               \* the statement WatchResource is at
    initialItems,      \* the identifiers of the items of the initial fetch
    seenItems,         \* WatchResource's seenItems
    reportCount,       \* how often each identifier was printed as new
    polls,             \* the ticks handled so far
    lastPoll,          \* how the last poll's FetchService ended
    interrupted        \* os.Interrupt was delivered to sigChan

discVars == << services, dServiceName, dResourceName, listServicesFails,
               dpc, discovered >>

paramVars == << fileParameter, jsonParameter, parameters, ppc, parsedOut >>

postVars == << results, sortBy, spc, sorted, postVerb, postFormat, rows, columns,
              limited, filteredResults >>

inputVars == << endpoint, serviceName, environment, token, copyToClipboard,
               outputFormatExplicit, aliases, options0 >>

dispatchVars == << verb, resourceName, outputFormat, page, pageSize, optParameters,
                  callerOptions, usesNewOptions, request >>

collabVars == << apiEndpoint, identityEndpoint, hasIdentityService, collabErr >>

connVars == << conn, refClient, fconn, frefClient >>

callVars == << fullServiceName, streamed, received, allResponses, remoteStatus,
              jsonBytes, fetchErr >>

fetchVars == << pc, inputVars, dispatchVars, collabVars, connVars, fetchCalled, dialLog,
                callVars, respMap, retErr >>

warmVars == << ipc, lpc, osArgs, initEndpoint, cachedEndpointsMap, endpoints,
              doneReceived, timedOut, lateInstall, cacheReads, liveStored,
              registered >>

tableVars == << tpc, tableResults, noPaging, tablePageSize, currentPage, searchTerm,
               tableFiltered, totalPages, startIdx, endIdx >>

watchVars == << wpc, initialItems, seenItems, reportCount, polls, lastPoll,
               interrupted >>

uiVars == << tableVars, watchVars >>

vars == << discVars, paramVars, postVars, fetchVars, warmVars, uiVars >>

EmptyMap == [k \in {} |-> 0]

(***************************************************************************)
(* The state of a component while another component's specification runs.  *)
(***************************************************************************)
DiscIdle ==
    /\ services = << >>
    /\ dServiceName = << >>
    /\ dResourceName = << >>
    /\ listServicesFails = FALSE
    /\ dpc = "idle"
    /\ discovered = [ok |-> FALSE, name |-> << >>, err |-> << >>]

ParamIdle ==
    /\ fileParameter = [kind |-> "none", data |-> EmptyMap]
    /\ jsonParameter = [kind |-> "none", data |-> EmptyMap]
    /\ parameters = << >>
    /\ ppc = "idle"
    /\ parsedOut = [status |-> "ok", parsed |-> EmptyMap, err |-> << >>]

PostIdle ==
    /\ results = << >>
    /\ sortBy = ""
    /\ spc = "idle"
    /\ sorted = << >>
    /\ postVerb = "list"
    /\ postFormat = ""
    /\ rows = 0
    /\ columns = << >>
    /\ limited = << >>
    /\ filteredResults = << >>

TableIdle ==
    /\ tpc = "idle"
    /\ tableResults = << >>
    /\ noPaging = FALSE
    /\ tablePageSize = 0
    /\ currentPage = 0
    /\ searchTerm = << >>
    /\ tableFiltered = << >>
    /\ totalPages = 0
    /\ startIdx = 0
    /\ endIdx = 0

WatchIdle ==
    /\ wpc = "idle"
    /\ initialItems = {}
    /\ seenItems = {}
    /\ reportCount = EmptyMap
    /\ polls = 0
    /\ lastPoll = "none"
    /\ interrupted = FALSE

UIIdle == TableIdle /\ WatchIdle

\* a nil map[string]string
NilMap == [src |-> "nil", names |-> {}]

WarmIdle ==
    /\ ipc = "idle"
    /\ lpc = "idle"
    /\ osArgs = ""
    /\ initEndpoint = << >>
    /\ cachedEndpointsMap = NilMap
    /\ endpoints = NilMap
    /\ doneReceived = FALSE
    /\ timedOut = FALSE
    /\ lateInstall = FALSE
    /\ cacheReads = << >>
    /\ liveStored = FALSE
    /\ registered = {}

\* no request message has been built
NoRequest ==
    [built |-> FALSE, file |-> [kind |-> "none", data |-> EmptyMap],
     json |-> [kind |-> "none", data |-> EmptyMap], params |-> << >>,
     mapping |-> EmptyMap]

\* the FetchOptions fields the model follows
Options(format, explicit, copy, params, p, size) ==
    [OutputFormat |-> format, OutputFormatExplicit |-> explicit,
     CopyToClipboard |-> copy, Parameters |-> params, Page |-> p, PageSize |-> size]

NoResponse == [shape |-> "none", results |-> << >>, message |-> ""]

FetchIdle ==
    /\ pc = "idle"
    /\ endpoint = << >>
    /\ serviceName = << >>
    /\ verb = << >>
    /\ resourceName = << >>
    /\ environment = << >>
    /\ token = << >>
    /\ outputFormat = ""
    /\ copyToClipboard = FALSE
    /\ outputFormatExplicit = FALSE
    /\ page = 0
    /\ pageSize = 0
    /\ optParameters = << >>
    /\ aliases = EmptyMap
    /\ options0 = Options("", FALSE, FALSE, << >>, 0, 0)
    /\ callerOptions = Options("", FALSE, FALSE, << >>, 0, 0)
    /\ usesNewOptions = FALSE
    /\ request = NoRequest
    /\ apiEndpoint = << >>
    /\ identityEndpoint = << >>
    /\ hasIdentityService = FALSE
    /\ collabErr = "none"
    /\ conn = "nil"
    /\ refClient = "nil"
    /\ fetchCalled = FALSE
    /\ fconn = "nil"
    /\ frefClient = "nil"
    /\ dialLog = << >>
    /\ fullServiceName = << >>
    /\ streamed = FALSE
    /\ received = << >>
    /\ allResponses = << >>
    /\ remoteStatus = << >>
    /\ jsonBytes = << >>
    /\ fetchErr = << >>
    /\ respMap = NoResponse
    /\ retErr = << >>

(***************************************************************************)
(* Endpoint resolution: FetchService lines 181-229 and fetchJSONResponse   *)
(* lines 496-555.  A resolution is [ok, hostPort, err].                    *)
(***************************************************************************)
GrpcPrefix == << "grpc", ":", "/", "/" >>

GrpcSSLPrefix == << "grpc+ssl", ":", "/", "/" >>

\* format.ConvertServiceName: the host label of a service's short name
ConvertServiceName(name) ==
    IF name = << "cost_analysis" >> THEN << "cost-analysis" >> ELSE name

\* the slice with its first element replaced
ReplaceFirst(parts, label) == [parts EXCEPT ![1] = label]

\* the slice with its last element replaced
ReplaceLast(parts, label) == [parts EXCEPT ![Len(parts)] = label]

Resolved(hp) == [ok |-> TRUE, hostPort |-> hp, err |-> << >>]

Unresolved(msg) == [ok |-> FALSE, hostPort |-> << >>, err |-> msg]

\* lines 404-418 ignoring a port the last part states
extractPortDefault(parts) == << ":", "443" >>

\* lines 404-418
extractPortFromParts(parts) ==
    IF Len(parts) = 0 THEN << ":", "443" >>
    ELSE LET lastPart == parts[Len(parts)]
             portParts == Split(lastPart, << ":" >>)
         IN  IF Contains(lastPart, << ":" >>) /\ Len(portParts) = 2
               THEN << ":" >> \o portParts[2]
             ELSE << ":", "443" >>

\* lines 202-217 and 528-543: the host derived from apiEndpoint
hostFromAPIEndpoint(apiURL, name) ==
    LET urlParts == Split(apiURL, << "/", "/" >>)
        domainParts == Split(urlParts[2], << "." >>)
        port == extractPortFromParts(domainParts)
        lastPart == domainParts[Len(domainParts)]
        stripped == IF Contains(lastPart, << ":" >>)
                      THEN ReplaceLast(domainParts, Split(lastPart, << ":" >>)[1])
                    ELSE domainParts
    IN  IF Len(urlParts) # 2
          THEN Unresolved(<< "invalid API endpoint format: " >> \o apiURL)
        ELSE Resolved(Join(ReplaceFirst(stripped, ConvertServiceName(name)),
                           << "." >>) \o port)

\* lines 219-227 and 546-554: the host derived from the identity endpoint
hostFromIdentityEndpoint(identityURL, name) ==
    LET trimmedEndpoint == TrimPrefix(identityURL, GrpcSSLPrefix)
        parts == Split(trimmedEndpoint, << "." >>)
    IN  IF Len(parts) < 4
          THEN Unresolved(<< "invalid endpoint format: " >> \o trimmedEndpoint)
        ELSE Resolved(Join(ReplaceFirst(parts, ConvertServiceName(name)),
                           << "." >>))

\* lines 510-525: the host derived from a grpc+ssl endpoint of the configuration
hostFromSSLEndpoint(configEndpoint, name) ==
    LET slashParts == Split(configEndpoint, << "/" >>)
        withoutPath == Join(SubSeq(slashParts, 1, Len(slashParts) - 1), << "/" >>)
        parts == Split(withoutPath, << ":", "/", "/" >>)
        hostParts == Split(parts[2], << "." >>)
    IN  IF Len(parts) # 2
          THEN Unresolved(<< "invalid endpoint format: " >> \o withoutPath)
        ELSE IF Len(hostParts) < 4
          THEN Unresolved(<< "invalid endpoint format: " >> \o withoutPath)
        ELSE Resolved(Join(ReplaceFirst(hostParts, ConvertServiceName(name)),
                           << "." >>))

\* FetchService, lines 186-229, once apiEndpoint and the identity endpoint are known
resolveFetchService(configEndpoint, api, identity, hasIdentity, name) ==
    IF HasPrefix(configEndpoint, GrpcPrefix)
      THEN Resolved(TrimPrefix(configEndpoint, GrpcPrefix))
    ELSE IF ~hasIdentity THEN hostFromAPIEndpoint(api, name)
    ELSE hostFromIdentityEndpoint(identity, name)

\* fetchJSONResponse, lines 496-555
resolveFetchJSON(configEndpoint, api, identity, hasIdentity, name) ==
    IF HasPrefix(configEndpoint, GrpcPrefix)
      THEN Resolved(TrimPrefix(configEndpoint, GrpcPrefix))
    ELSE IF ~hasIdentity
      THEN IF HasPrefix(configEndpoint, GrpcSSLPrefix)
             THEN hostFromSSLEndpoint(configEndpoint, name)
           ELSE hostFromAPIEndpoint(api, name)
    ELSE hostFromIdentityEndpoint(identity, name)

(***************************************************************************)
(* discoverService                                                         *)
(***************************************************************************)
IsPluginMatch(service, resource) ==
    /\ Contains(service, << ".", "plugin", "." >>)
    /\ HasSuffix(service, resource)

IsAPIMatch(service, name, resource) ==
    /\ Contains(service, << "spaceone", ".", "api", "." >> \o name)
    /\ HasSuffix(service, resource)

\* the smallest member of a set of indices; 0 when it is empty
MinIndex(hits) ==
    IF hits = {} THEN 0 ELSE CHOOSE i \in hits : \A j \in hits : i <= j

\* lines 807-811: where the first loop returns
FirstPluginMatch(list, resource) ==
    MinIndex({ i \in 1..Len(list) : IsPluginMatch(list[i], resource) })

\* lines 813-818: where the second loop returns
FirstAPIMatch(list, name, resource) ==
    MinIndex({ i \in 1..Len(list) : IsAPIMatch(list[i], name, resource) })

\* the two scans in the opposite order
discoverServiceAPIFirst(list, listErr, name, resource) ==
    LET p == FirstPluginMatch(list, resource)
        a == FirstAPIMatch(list, name, resource)
    IN  IF listErr
          THEN [ok |-> FALSE, name |-> << >>,
                err |-> << "failed to list services: ", "unavailable" >>]
        ELSE IF a # 0 THEN [ok |-> TRUE, name |-> list[a], err |-> << >>]
        ELSE IF p # 0 THEN [ok |-> TRUE, name |-> list[p], err |-> << >>]
        ELSE [ok |-> FALSE, name |-> << >>,
              err |-> << "service not found for " >> \o name
                         \o << "." >> \o resource]

\* the versioned-API scan alone (lines 813-818), the plugin scan left out
discoverServiceAPIOnly(list, listErr, name, resource) ==
    LET a == FirstAPIMatch(list, name, resource)
    IN  IF listErr
          THEN [ok |-> FALSE, name |-> << >>,
                err |-> << "failed to list services: ", "unavailable" >>]
        ELSE IF a # 0 THEN [ok |-> TRUE, name |-> list[a], err |-> << >>]
        ELSE [ok |-> FALSE, name |-> << >>,
              err |-> << "service not found for " >> \o name
                         \o << "." >> \o resource]

discoverService(list, listErr, name, resource) ==
    LET p == FirstPluginMatch(list, resource)
        a == FirstAPIMatch(list, name, resource)
    IN  IF listErr
          THEN [ok |-> FALSE, name |-> << >>,
                err |-> << "failed to list services: ", "unavailable" >>]
        ELSE IF p # 0 THEN [ok |-> TRUE, name |-> list[p], err |-> << >>]
        ELSE IF a # 0 THEN [ok |-> TRUE, name |-> list[a], err |-> << >>]
        ELSE [ok |-> FALSE, name |-> << >>,
              err |-> << "service not found for " >> \o name
                         \o << "." >> \o resource]

ServiceNames ==
    { << "spaceone", ".", "api", ".", "identity", ".", "v1", ".", "User" >>,
      << "spaceone", ".", "api", ".", "identity", ".", "v2", ".", "User" >>,
      << "spaceone", ".", "api", ".", "identity", ".", "v2", ".", "Workspace", "User" >>,
      << "spaceone", ".", "api", ".", "inventory", ".", "plugin", ".", "Collector" >>,
      << "spaceone", ".", "api", ".", "identity", ".", "plugin", ".", "User" >>,
      << "spaceone", ".", "api", ".", "inventory", ".", "plugin", ".", "User" >>,
      << "grpc", ".", "reflection", ".", "v1alpha", ".", "ServerReflection" >> }

ShortNames == { << "identity" >>, << "inventory" >> }

ResourceNames == { << "User" >>, << "Collector" >> }

(***************************************************************************)
(* parseParameters                                                         *)
(*                                                                         *)
(* A parameter value is [t |-> its dynamic type, v |-> its text]; a        *)
(* parameter mapping is a function from keys to values.                    *)
(***************************************************************************)
Str(text) == [t |-> "string", v |-> text]

\* fmt.Sprintf("%d", n)
FormatInt(n) == << ToString(n) >>

\* the texts json.Unmarshal reads as a number
NumberLiterals == { FormatInt(n) : n \in 0..MaxNumber }

\* json.Unmarshal([]byte(value), &jsonValue) of one key=value token's value
JSONUnmarshalValue(value) ==
    IF value \in NumberLiterals THEN [ok |-> TRUE, val |-> [t |-> "number", v |-> value]]
    ELSE IF value \in { << "true" >>, << "false" >> }
      THEN [ok |-> TRUE, val |-> [t |-> "bool", v |-> value]]
    ELSE IF value = << "null" >> THEN [ok |-> TRUE, val |-> [t |-> "null", v |-> << >>]]
    ELSE [ok |-> FALSE, val |-> Str(value)]

\* lines 789-795: the value kept for a key=value token
InferValue(value) ==
    LET j == JSONUnmarshalValue(value)
    IN  IF j.ok THEN j.val ELSE Str(value)

\* assignment parsed[key] = value
MapSet(m, key, value) ==
    [k \in DOMAIN m \cup {key} |-> IF k = key THEN value ELSE m[k]]

\* json.Unmarshal(JSONParameter, &parsed) for a JSON object: every top-level
\* key of the object is stored into the existing map
UnmarshalIntoKeepExisting(parsed, doc) ==
    [k \in DOMAIN parsed \cup DOMAIN doc |->
        IF k \in DOMAIN parsed THEN parsed[k] ELSE doc[k]]

UnmarshalInto(parsed, doc) ==
    [k \in DOMAIN parsed \cup DOMAIN doc |->
        IF k \in DOMAIN doc THEN doc[k] ELSE parsed[k]]

\* lines 748-771
LoadFile(file) ==
    IF file.kind = "none" THEN [status |-> "ok", parsed |-> EmptyMap, err |-> << >>]
    ELSE IF file.kind = "unreadable"
      THEN [status |-> "error", parsed |-> EmptyMap,
            err |-> << "failed to read file parameter: " >>]
    ELSE IF file.kind = "badyaml"
      THEN [status |-> "error", parsed |-> EmptyMap,
            err |-> << "failed to unmarshal YAML file: " >>]
    ELSE [status |-> "ok", parsed |-> file.data, err |-> << >>]

\* lines 774-778; isNil: JSON null sets the map itself to nil
LoadJSON(parsed, json) ==
    IF json.kind = "none"
      THEN [status |-> "ok", parsed |-> parsed, isNil |-> FALSE, err |-> << >>]
    ELSE IF json.kind = "invalid"
      THEN [status |-> "error", parsed |-> EmptyMap, isNil |-> FALSE,
            err |-> << "failed to unmarshal JSON parameter: " >>]
    ELSE IF json.kind = "null"
      THEN [status |-> "ok", parsed |-> EmptyMap, isNil |-> TRUE, err |-> << >>]
    ELSE [status |-> "ok", parsed |-> UnmarshalInto(parsed, json.data),
          isNil |-> FALSE, err |-> << >>]

\* lines 781-796, from token i on
RECURSIVE LoadParams(_, _, _, _)
LoadParams(parsed, isNil, params, i) ==
    IF i > Len(params) THEN [status |-> "ok", parsed |-> parsed, err |-> << >>]
    ELSE LET parts == SplitN2(params[i], << "=" >>)
         IN  IF Len(parts) # 2
               THEN [status |-> "error", parsed |-> EmptyMap,
                     err |-> << "invalid parameter format. Use key=value" >>]
             ELSE IF isNil
               THEN \* assignment to an entry of a nil map
                    [status |-> "panic", parsed |-> EmptyMap, err |-> << >>]
             ELSE LoadParams(MapSet(parsed, parts[1], InferValue(parts[2])),
                             isNil, params, i + 1)

\* the merge with the file source applied last
parseParametersFileLast(file, json, params) ==
    LET j == LoadJSON(EmptyMap, json)
        p == LoadParams(j.parsed, j.isNil, params, 1)
        f == LoadFile(file)
    IN  IF f.status # "ok" THEN f
        ELSE IF j.status # "ok" THEN [status |-> j.status, parsed |-> EmptyMap, err |-> j.err]
        ELSE IF p.status # "ok" THEN p
        ELSE [status |-> "ok", parsed |-> UnmarshalInto(p.parsed, f.parsed), err |-> << >>]

parseParameters(file, json, params) ==
    LET f == LoadFile(file)
        j == LoadJSON(f.parsed, json)
    IN  IF f.status # "ok" THEN f
        ELSE IF j.status # "ok" THEN [status |-> j.status, parsed |-> EmptyMap, err |-> j.err]
        ELSE LoadParams(j.parsed, j.isNil, params, 1)

\* every mapping from a subset of keys to values
MapsOver(keys, values) == UNION { [d -> values] : d \in SUBSET keys }

FileDocs == MapsOver({ << "name" >>, << "query" >> },
                     { Str(<< "prod" >>), [t |-> "map", v |-> << "{a: 1, b: 2}" >>] })

JSONDocs == MapsOver({ << "name" >>, << "query" >> },
                     { [t |-> "number", v |-> << "9" >>],
                       [t |-> "map", v |-> << "{\"a\": 7}" >>] })

FileSources ==
    { [kind |-> k, data |-> EmptyMap] : k \in { "none", "unreadable", "badyaml" } }
      \cup { [kind |-> "map", data |-> d] : d \in FileDocs }

JSONSources ==
    { [kind |-> k, data |-> EmptyMap] : k \in { "none", "invalid", "null" } }
      \cup { [kind |-> "object", data |-> d] : d \in JSONDocs }

ParamTokens ==
    { << "name", "=", "test" >>, << "name", "=", "3" >>, << "name", "=" >>,
      << "query", "=", "true" >>, << "count", "=", "15" >>,
      << "count", "=", "x", "=", "y" >>, << "name" >> }

(***************************************************************************)
(* FetchService, lines 321-355: sort.Slice(results, less)                  *)
(*                                                                         *)
(* A decoded JSON value is [t |-> dynamic type, n |-> number, s |-> text]; *)
(* text is a sequence of character codes, compared as Go compares strings. *)
(* A result item is [isMap, fields]: fields maps field names to values.    *)
(***************************************************************************)
Float64Val(n) == [t |-> "float64", n |-> n, s |-> << >>]

StringVal(s) == [t |-> "string", n |-> 0, s |-> s]

BoolVal(b) == [t |-> "bool", n |-> IF b THEN 1 ELSE 0, s |-> << >>]

NilVal == [t |-> "nil", n |-> 0, s |-> << >>]

\* Go's < on strings
RECURSIVE StringLess(_, _)
StringLess(x, y) ==
    IF Len(y) = 0 THEN FALSE
    ELSE IF Len(x) = 0 THEN TRUE
    ELSE IF Head(x) # Head(y) THEN Head(x) < Head(y)
    ELSE StringLess(Tail(x), Tail(y))

\* lines 325-352, the less function: "true", "false", or "panic" when a type
\* assertion fails
less(iMap, jMap, by) ==
    IF ~iMap.isMap \/ ~jMap.isMap THEN "panic"
    ELSE LET iOk == by \in DOMAIN iMap.fields
             jOk == by \in DOMAIN jMap.fields
             iVal == iMap.fields[by]
             jVal == jMap.fields[by]
         IN  IF ~iOk /\ ~jOk THEN "false"
             ELSE IF ~iOk THEN "false"
             ELSE IF ~jOk THEN "true"
             ELSE IF iVal.t = "string"
               THEN IF jVal.t # "string" THEN "panic"
                    ELSE IF StringLess(iVal.s, jVal.s) THEN "true" ELSE "false"
             ELSE IF iVal.t = "float64"
               THEN IF jVal.t # "float64" THEN "panic"
                    ELSE IF iVal.n < jVal.n THEN "true" ELSE "false"
             ELSE IF iVal.t = "bool"
               THEN IF jVal.t # "bool" THEN "panic"
                    ELSE IF iVal.n = 1 /\ jVal.n = 0 THEN "true" ELSE "false"
             ELSE "false"

(***************************************************************************)
(* sort.Slice as the Go 1.23 toolchain of the release build implements it  *)
(* (pdqsort_func): insertion sort up to maxInsertion elements; above it,   *)
(* choose a pivot, return if the slice is already in order, else partition *)
(* and sort both sides.  A sort state is [d |-> the slice, panic |-> a     *)
(* call of less panicked].  Positions are 1-based and ranges inclusive.    *)
(* The pass is exact for slices of at most maxInsertion + 1 elements, the  *)
(* longest this model sorts (the pattern breaking and the heap sort of     *)
(* longer slices are not modelled).                                        *)
(***************************************************************************)
maxInsertion == 12

Swap(st, i, j) ==
    [st EXCEPT !.d = [st.d EXCEPT ![i] = st.d[j], ![j] = st.d[i]]]

\* data.Less(i, j) on the current slice
Less(st, i, j, by) == less(st.d[i], st.d[j], by)

RECURSIVE insertionShift(_, _, _, _)
insertionShift(st, lo, j, by) ==
    IF st.panic \/ j <= lo THEN st
    ELSE LET r == Less(st, j, j - 1, by)
         IN  IF r = "panic" THEN [st EXCEPT !.panic = TRUE]
             ELSE IF r = "true" THEN insertionShift(Swap(st, j, j - 1), lo, j - 1, by)
             ELSE st

RECURSIVE insertionFrom(_, _, _, _, _)
insertionFrom(st, lo, hi, i, by) ==
    IF st.panic \/ i > hi THEN st
    ELSE insertionFrom(insertionShift(st, lo, i, by), lo, hi, i + 1, by)

insertionSort(st, lo, hi, by) == insertionFrom(st, lo, hi, lo + 1, by)

\* order2_func: [x, y, swaps, panic] with d[x] <= d[y]
order2(st, a, b, swaps, by) ==
    LET r == Less(st, b, a, by)
    IN  IF r = "panic" THEN [x |-> a, y |-> b, swaps |-> swaps, panic |-> TRUE]
        ELSE IF r = "true" THEN [x |-> b, y |-> a, swaps |-> swaps + 1, panic |-> FALSE]
        ELSE [x |-> a, y |-> b, swaps |-> swaps, panic |-> FALSE]

\* median_func
median(st, a, b, c, by) ==
    LET o1 == order2(st, a, b, 0, by)
        o2 == order2(st, o1.y, c, o1.swaps, by)
        o3 == order2(st, o1.x, o2.x, o2.swaps, by)
    IN  [pivot |-> o3.y, swaps |-> o3.swaps,
         panic |-> o1.panic \/ (~o1.panic /\ o2.panic)
                     \/ (~o1.panic /\ ~o2.panic /\ o3.panic)]

\* choosePivot_func for 8 <= length < 50
choosePivot(st, lo, hi, by) ==
    LET l == hi - lo + 1
        q == l \div 4
    IN  median(st, lo + q, lo + 2 * q, lo + 3 * q, by)

\* partialInsertionSort_func on a slice shorter than 50: the first position
\* in (lo, hi] whose element is less than its predecessor, hi + 1 when the
\* slice is in order, 0 when a comparison panicked
RECURSIVE firstDescent(_, _, _, _)
firstDescent(st, i, hi, by) ==
    IF i > hi THEN hi + 1
    ELSE LET r == Less(st, i, i - 1, by)
         IN  IF r = "panic" THEN 0
             ELSE IF r = "true" THEN i
             ELSE firstDescent(st, i + 1, hi, by)

\* partition_func, the scans: i moves right while d[i] < d[lo]
RECURSIVE scanRight(_, _, _, _, _)
scanRight(st, lo, i, j, by) ==
    IF i > j THEN [at |-> i, panic |-> FALSE]
    ELSE LET r == Less(st, i, lo, by)
         IN  IF r = "panic" THEN [at |-> i, panic |-> TRUE]
             ELSE IF r = "true" THEN scanRight(st, lo, i + 1, j, by)
             ELSE [at |-> i, panic |-> FALSE]

\* j moves left while not d[j] < d[lo]
RECURSIVE scanLeft(_, _, _, _, _)
scanLeft(st, lo, i, j, by) ==
    IF i > j THEN [at |-> j, panic |-> FALSE]
    ELSE LET r == Less(st, j, lo, by)
         IN  IF r = "panic" THEN [at |-> j, panic |-> TRUE]
             ELSE IF r = "false" THEN scanLeft(st, lo, i, j - 1, by)
             ELSE [at |-> j, panic |-> FALSE]

\* partition_func, from the pair (i, j) on: [st, mid]
RECURSIVE partitionLoop(_, _, _, _, _)
partitionLoop(st, lo, i, j, by) ==
    LET r == scanRight(st, lo, i, j, by)
        l == scanLeft(st, lo, r.at, j, by)
    IN  IF r.panic \/ l.panic THEN [st |-> [st EXCEPT !.panic = TRUE], mid |-> lo]
        ELSE IF r.at > l.at THEN [st |-> Swap(st, l.at, lo), mid |-> l.at]
        ELSE partitionLoop(Swap(st, r.at, l.at), lo, r.at + 1, l.at - 1, by)

partition(st, lo, hi, pivot, by) ==
    partitionLoop(Swap(st, lo, pivot), lo, lo + 1, hi, by)

pdqsort(st, lo, hi, by) ==
    IF hi - lo + 1 <= maxInsertion THEN insertionSort(st, lo, hi, by)
    ELSE LET c == choosePivot(st, lo, hi, by)
             f == firstDescent(st, lo + 1, hi, by)
         IN  IF c.panic THEN [st EXCEPT !.panic = TRUE]
             ELSE IF c.swaps = 0 /\ f = 0 THEN [st EXCEPT !.panic = TRUE]
             ELSE IF c.swaps = 0 /\ f = hi + 1 THEN st
             ELSE LET p == partition(st, lo, hi, c.pivot, by)
                      left == insertionSort(p.st, lo, p.mid - 1, by)
                  IN  IF p.st.panic THEN p.st
                      ELSE insertionSort(left, p.mid + 1, hi, by)

\* sort.Slice(results, less)
sortSlice(data, by) == pdqsort([d |-> data, panic |-> FALSE], 1, Len(data), by)

\* the values a sort field takes in the model
FieldValues ==
    { Float64Val(1), Float64Val(2), StringVal(<< 1 >>), StringVal(<< 1, 2 >>),
      BoolVal(TRUE), BoolVal(FALSE), NilVal }

\* item number i of a list: a map with a unique "id" and the field "k"
Item(i, v) ==
    [isMap |-> TRUE, fields |-> [f \in { "id", "k" } |->
                                    IF f = "id" THEN Float64Val(i) ELSE v]]

\* item number i of a list, without the field "k"
ItemWithout(i) ==
    [isMap |-> TRUE, fields |-> [f \in { "id" } |-> Float64Val(i)]]

\* marks an item that lacks the field "k"
Absent == [t |-> "absent", n |-> 0, s |-> << >>]

\* lists of up to MaxRows items over every kind of value
ShortLists ==
    UNION { { [i \in 1..n |-> IF c[i].t = "absent" THEN ItemWithout(i)
                                               ELSE Item(i, c[i])] :
                c \in [1..n -> FieldValues \cup { Absent }] } : n \in 0..MaxRows }

\* lists one longer than the insertion-sort cutoff, two numbers as keys
LongLists ==
    { [i \in 1..(maxInsertion + 1) |-> Item(i, Float64Val(c[i]))] :
        c \in [1..(maxInsertion + 1) -> { 1, 2 }] }

\* lists of the same length in which items lack the field "k"
LongListsMissing ==
    { [i \in 1..(maxInsertion + 1) |-> IF c[i] = 0 THEN ItemWithout(i)
                                       ELSE Item(i, Float64Val(1))] :
        c \in [1..(maxInsertion + 1) -> { 0, 1 }] }

(***************************************************************************)
(* discoverService applied to every reflected list of the model            *)
(***************************************************************************)
InitDiscover ==
    /\ FetchIdle
    /\ WarmIdle
    /\ UIIdle
    /\ services \in SeqsUpTo(ServiceNames, MaxServices)
    /\ dServiceName \in ShortNames
    /\ dResourceName \in ResourceNames
    /\ listServicesFails \in BOOLEAN
    /\ dpc = "call"
    /\ discovered = [ok |-> FALSE, name |-> << >>, err |-> << >>]
    /\ ParamIdle
    /\ PostIdle

DiscoverService ==
    /\ dpc = "call"
    /\ dpc' = "returned"
    /\ discovered' = discoverService(services, listServicesFails,
                                      dServiceName, dResourceName)
    /\ UNCHANGED << services, dServiceName, dResourceName, listServicesFails,
                    paramVars, postVars, fetchVars, warmVars, uiVars >>

NextDiscover == DiscoverService

SpecDiscover == InitDiscover /\ [][NextDiscover]_vars

(***************************************************************************)
(* parseParameters applied to every combination of the three sources       *)
(***************************************************************************)
InitParams ==
    /\ FetchIdle
    /\ WarmIdle
    /\ UIIdle
    /\ DiscIdle
    /\ PostIdle
    /\ fileParameter \in FileSources
    /\ jsonParameter \in JSONSources
    /\ parameters \in SeqsUpTo(ParamTokens, MaxParams)
    /\ ppc = "call"
    /\ parsedOut = [status |-> "ok", parsed |-> EmptyMap, err |-> << >>]

ParseParameters ==
    /\ ppc = "call"
    /\ ppc' = "returned"
    /\ parsedOut' = parseParameters(fileParameter, jsonParameter, parameters)
    /\ UNCHANGED << fileParameter, jsonParameter, parameters, discVars, postVars, fetchVars,
                    warmVars, uiVars >>

NextParams == ParseParameters

SpecParams == InitParams /\ [][NextParams]_vars

(***************************************************************************)
(* The post-processing of FetchService applied to every result list        *)
(***************************************************************************)
InitSort ==
    /\ FetchIdle
    /\ WarmIdle
    /\ UIIdle
    /\ DiscIdle
    /\ ParamIdle
    /\ results \in ShortLists \cup LongLists \cup LongListsMissing
    /\ sortBy \in { "", "k", "zone" }
    /\ spc = "sort"
    /\ sorted = << >>
    /\ postVerb = "list"
    /\ postFormat = "table"
    /\ rows = 0
    /\ columns = << >>
    /\ limited = << >>
    /\ filteredResults = << >>

\* what the steps of lines 321-387 leave alone
postInputs == << results, sortBy, postVerb, postFormat, rows, columns >>

\* the sort of lines 322-355 applied to the items as the column filter of
\* lines 365-384 would leave them
SortResultsFiltered ==
    /\ spc = "sort"
    /\ LET input == IF columns # << >> /\ postVerb = "list"
                      THEN [i \in 1..Len(results) |->
                              IF results[i].isMap
                                THEN [isMap |-> TRUE,
                                      fields |-> [f \in { g \in DOMAIN results[i].fields :
                                                            << g >> = columns } |->
                                                    results[i].fields[f]]]
                              ELSE results[i]]
                    ELSE results
           out == sortSlice(input, sortBy)
       IN  IF sortBy = "" \/ postVerb # "list"
             THEN spc' = "sorted" /\ sorted' = input
           ELSE IF out.panic THEN spc' = "panic" /\ sorted' = << >>
           ELSE spc' = "sorted" /\ sorted' = out.d
    /\ UNCHANGED << results, sortBy, postVerb, postFormat, rows, columns, limited,
                    filteredResults, discVars, paramVars, fetchVars, warmVars, uiVars >>

\* lines 322-355
SortResults ==
    /\ spc = "sort"
    /\ LET out == sortSlice(results, sortBy)
       IN  IF sortBy = "" \/ postVerb # "list"
             THEN spc' = "sorted" /\ sorted' = results
           ELSE IF out.panic THEN spc' = "panic" /\ sorted' = << >>
           ELSE spc' = "sorted" /\ sorted' = out.d
    /\ UNCHANGED << postInputs, limited, filteredResults, discVars, paramVars,
                    fetchVars, warmVars, uiVars >>

NextSort == SortResults

SpecSort == InitSort /\ [][NextSort]_vars

(***************************************************************************)
(* FetchService, lines 321-387: the output format test, the sort, the row  *)
(* limit and the column filter, in the order of the code.  results holds   *)
(* the array that respMap["results"] decoded to.                           *)
(***************************************************************************)
\* strings.TrimSpace
TrimSpace(s) ==
    LET kept == { i \in 1..Len(s) : s[i] # " " }
    IN  IF kept = {} THEN << >>
        ELSE SubSeq(s, CHOOSE i \in kept : \A j \in kept : i <= j,
                       CHOOSE i \in kept : \A j \in kept : j <= i)

\* an array element that is not a JSON object
ScalarItem == [isMap |-> FALSE, fields |-> EmptyMap, scalar |-> Float64Val(7)]

\* the zero value that make([]interface{}, n) leaves in an element
NilItem == [isMap |-> FALSE, fields |-> EmptyMap, scalar |-> NilVal]

\* lines 357-363 without the test Rows > 0
limitRowsUnguarded(list, n) ==
    IF n \in 0..(Len(list) - 1) THEN SubSeq(list, 1, n) ELSE list

\* lines 357-363: results[:options.Rows]
limitRows(list, n) ==
    IF n > 0
      THEN IF Len(list) > n THEN SubSeq(list, 1, n) ELSE list
    ELSE list

\* lines 372-381 storing every column, found on the item or not
filterMapUnchecked(result, cols) ==
    IF result.isMap
      THEN LET named == { f \in { "id", "k", "zone" } :
                            \E c \in 1..Len(cols) : TrimSpace(cols[c]) = << f >> }
           IN  [isMap |-> TRUE,
                fields |-> [f \in named |->
                              IF f \in DOMAIN result.fields THEN result.fields[f]
                              ELSE NilVal]]
    ELSE NilItem

\* lines 372-381: the map built for one element of results
filterMap(result, cols) ==
    IF result.isMap
      THEN LET found == { f \in DOMAIN result.fields :
                            \E c \in 1..Len(cols) : TrimSpace(cols[c]) = << f >> }
           IN  [isMap |-> TRUE, fields |-> [f \in found |-> result.fields[f]]]
    ELSE NilItem

\* lines 368-383
filterColumns(list, text) ==
    LET cols == Split(text, << "," >>)
    IN  [i \in 1..Len(list) |-> filterMap(list[i], cols)]

\* the column lists of the model, each with the field names it names
ColumnCases ==
    { [text |-> << >>, names |-> {}],
      [text |-> << "k" >>, names |-> { "k" }],
      [text |-> << "id" >>, names |-> { "id" }],
      [text |-> << "id", ",", " ", "k" >>, names |-> { "id", "k" }],
      [text |-> << "k", ",", "zone", ",", "k" >>, names |-> { "k", "zone" }],
      [text |-> << " " >>, names |-> {}] }

\* result lists of up to MaxRows elements: objects with and without the
\* field "k", and elements that are not objects
PostLists ==
    UNION { { [i \in 1..n |-> IF c[i] = 0 THEN ItemWithout(i)
                              ELSE IF c[i] = 3 THEN ScalarItem
                              ELSE Item(i, Float64Val(3 - c[i]))] :
                c \in [1..n -> 0..3] } : n \in 0..MaxRows }

InitPost ==
    /\ FetchIdle
    /\ WarmIdle
    /\ UIIdle
    /\ DiscIdle
    /\ ParamIdle
    /\ results \in PostLists
    /\ sortBy \in { "", "k" }
    /\ postVerb \in { "list", "get" }
    /\ postFormat \in { "", "table" }
    /\ rows \in -1..(MaxRows + 1)
    /\ columns \in { c.text : c \in ColumnCases }
    /\ spc = "format"
    /\ sorted = << >>
    /\ limited = << >>
    /\ filteredResults = << >>

\* line 321; with no output format the response is returned as decoded
CheckOutputFormat ==
    /\ spc = "format"
    /\ spc' = IF postFormat # "" THEN "sort" ELSE "returned"
    /\ UNCHANGED << postInputs, sorted, limited, filteredResults, discVars,
                    paramVars, fetchVars, warmVars, uiVars >>

\* lines 357-363
LimitRows ==
    /\ spc = "sorted"
    /\ limited' = IF postVerb = "list" THEN limitRows(sorted, rows) ELSE sorted
    /\ spc' = "limited"
    /\ UNCHANGED << postInputs, sorted, filteredResults, discVars, paramVars,
                    fetchVars, warmVars, uiVars >>

\* lines 365-384
FilterColumns ==
    /\ spc = "limited"
    /\ filteredResults' = IF columns # << >> /\ postVerb = "list"
                            THEN filterColumns(limited, columns)
                          ELSE limited
    /\ spc' = "filtered"
    /\ UNCHANGED << postInputs, sorted, limited, discVars, paramVars, fetchVars,
                    warmVars, uiVars >>

NextPost == CheckOutputFormat \/ SortResults \/ LimitRows \/ FilterColumns

SpecPost == InitPost /\ [][NextPost]_vars

(***************************************************************************)
(* One invocation of FetchService, statement by statement.                 *)
(***************************************************************************)
otherVars == << discVars, paramVars, postVars, warmVars, uiVars >>

\* the endpoints a configuration may name
LocalEndpoint == GrpcPrefix \o << "localhost", ":", "50051" >>

DevLabels == << "identity", ".", "api", ".", "dev", ".", "example", ".", "dev" >>

SSLEndpoint == GrpcSSLPrefix \o DevLabels \o << ":", "443" >>

SSLEndpointWithPath == SSLEndpoint \o << "/", "v1" >>

SSLEndpointShort == GrpcSSLPrefix \o << "identity", ".", "example", ".", "dev", ":", "443" >>

GatewayEndpoint == << "https", ":", "/", "/", "console", ".", "example", ".", "com" >>

Endpoints ==
    { LocalEndpoint, SSLEndpoint, SSLEndpointWithPath, SSLEndpointShort,
      GatewayEndpoint }

\* configs.GetAPIEndpoint: the API endpoints the collaborator may report
APIEndpointsOf(configEndpoint) ==
    IF HasPrefix(configEndpoint, GrpcSSLPrefix) THEN { configEndpoint }
    ELSE { << "https", ":", "/", "/", "console-v2", ".", "api", ".", "example", ".", "com" >>,
           << "http", ":", "/", "/", "gateway", ".", "example", ".", "com", ":", "8080" >> }

\* configs.GetIdentityEndpoint: the identity endpoints the collaborator may report
IdentityEndpointsOf(api) ==
    IF HasPrefix(api, GrpcSSLPrefix) THEN { api }
    ELSE { SSLEndpoint, SSLEndpointShort }

\* the status text of a failed remote call
AuthFailure ==
    << "rpc error: code = Unauthenticated desc = ", "ERROR_AUTHENTICATE_FAILURE",
       ": Authenticate failure." >>

TokenExpired ==
    << "rpc error: code = Unauthenticated desc = ", "Token is invalid or expired" >>

RequiredParameter ==
    << "rpc error: code = InvalidArgument desc = ", "ERROR_REQUIRED_PARAMETER", ": ",
       "Required parameter. (", "key = ", "domain_id", ")" >>

Unavailable == << "rpc error: code = Unavailable desc = ", "connection refused" >>

RemoteStatuses == { AuthFailure, TokenExpired, RequiredParameter, Unavailable }

\* the messages a method may answer with, named by their user_id
Messages == { "u-1", "u-2" }

\* respMsg.MarshalJSON(): the JSON text of a message
MarshalJSON(m) == << "{\"user_id\":\"", m, "\"}" >>

IsObjectText(text) ==
    /\ Len(text) = 3
    /\ text[1] = "{\"user_id\":\""
    /\ text[3] = "\"}"
    /\ text[2] \in Messages

\* lines 662-667 without the single-message case
streamResultAlwaysWrapped(responses) ==
    << "{\"results\": [" >> \o Join(responses, << "," >>) \o << "]}" >>

\* lines 662-667: the bytes a finished stream returns
streamResult(responses) ==
    IF Len(responses) = 1 THEN responses[1]
    ELSE << "{\"results\": [" >> \o Join(responses, << "," >>) \o << "]}" >>

\* line 316, json.Unmarshal(jsonBytes, &respMap)
UnmarshalResponse(bytes) ==
    LET inner == SubSeq(bytes, 2, Len(bytes) - 1)
        items == IF inner = << >> THEN << >> ELSE Split(inner, << "," >>)
    IN  IF IsObjectText(bytes)
          THEN [ok |-> TRUE,
                value |-> [shape |-> "message", results |-> << >>, message |-> bytes[2]]]
        ELSE IF /\ Len(bytes) >= 2
                /\ bytes[1] = "{\"results\": ["
                /\ bytes[Len(bytes)] = "]}"
                /\ \A i \in 1..Len(items) : IsObjectText(items[i])
          THEN [ok |-> TRUE,
                value |-> [shape |-> "results",
                           results |-> [i \in 1..Len(items) |-> items[i][2]],
                           message |-> ""]]
        ELSE [ok |-> FALSE, value |-> NoResponse]

\* lines 392-402
extractParameterName(errMsg) ==
    IF Contains(errMsg, << "Required parameter. (", "key = " >>)
      THEN LET start == Index(errMsg, << "key = " >>) + 1
               rest == SubSeq(errMsg, start, Len(errMsg))
               end == Index(rest, << ")" >>)
           IN  IF end # 0 THEN SubSeq(rest, 1, end - 1) ELSE << >>
    ELSE << >>

\* lines 302-311: the error FetchService returns for an error of fetchJSONResponse
fetchServiceError(err) ==
    IF /\ Contains(err, << "ERROR_REQUIRED_PARAMETER" >>)
       /\ extractParameterName(err) # << >>
      THEN << "missing required parameter: " >> \o extractParameterName(err)
    ELSE err

IsAuthStatus(status) ==
    \/ Contains(status, << "ERROR_AUTHENTICATE_FAILURE" >>)
    \/ Contains(status, << "Token is invalid or expired" >>)

\* lines 672-738: the error of a failed unary call
invokeError(status, env, fullMethod) ==
    IF IsAuthStatus(status)
      THEN IF HasSuffix(env, << "-app" >>) THEN << "app token required" >>
           ELSE << "authentication required" >>
    ELSE << "failed to invoke method " >> \o fullMethod \o << ": " >> \o status

\* line 620
FullMethod == << "/" >> \o fullServiceName \o << "/" >> \o verb

\* deferred conn.Close() and refClient.Reset()
Released(c) == IF c = "open" THEN "closed" ELSE c

\* return nil, err from FetchService: its deferred calls run
Return(err) ==
    /\ pc' = "returned"
    /\ retErr' = err
    /\ conn' = Released(conn)
    /\ refClient' = Released(refClient)
    /\ UNCHANGED << fconn, frefClient >>

\* return bytes, err from fetchJSONResponse: its deferred calls run
FReturn(bytes, err) ==
    /\ pc' = "fetched"
    /\ jsonBytes' = bytes
    /\ fetchErr' = err
    /\ fconn' = Released(fconn)
    /\ frefClient' = Released(frefClient)
    /\ UNCHANGED << conn, refClient, retErr >>

\* a panic unwinds both frames: every deferred call runs, then the process dies
Panic ==
    /\ pc' = "panicked"
    /\ fconn' = Released(fconn)
    /\ frefClient' = Released(frefClient)
    /\ conn' = Released(conn)
    /\ refClient' = Released(refClient)
    /\ UNCHANGED retErr

\* os.Exit and log.Fatalf: the process ends at once, no deferred call runs
Exit ==
    /\ pc' = "exited"
    /\ UNCHANGED << connVars, retErr >>

Goto(label) ==
    /\ pc' = label
    /\ UNCHANGED << connVars, retErr >>

\* the parameter sources an invocation may carry: none, a JSON null blob
\* with a key=value token, a token without "="
FetchParameterCases ==
    { << [kind |-> "none", data |-> EmptyMap], [kind |-> "none", data |-> EmptyMap],
         << >> >>,
      << [kind |-> "none", data |-> EmptyMap], [kind |-> "null", data |-> EmptyMap],
         << << "name", "=", "test" >> >> >>,
      << [kind |-> "none", data |-> EmptyMap], [kind |-> "none", data |-> EmptyMap],
         << << "name" >> >> >> }

\* the state at the entry of FetchService, the caller's inputs being chosen
FetchStart ==
    /\ WarmIdle
    /\ UIIdle
    /\ DiscIdle
    /\ PostIdle
    /\ parameters = << >>
    /\ ppc = "idle"
    /\ parsedOut = [status |-> "ok", parsed |-> EmptyMap, err |-> << >>]
    /\ pc = "config"
    /\ options0 = Options(outputFormat, outputFormatExplicit, copyToClipboard,
                          optParameters, page, pageSize)
    /\ callerOptions = options0
    /\ usesNewOptions = FALSE
    /\ request = NoRequest
    /\ apiEndpoint = << >>
    /\ identityEndpoint = << >>
    /\ hasIdentityService = FALSE
    /\ collabErr = "none"
    /\ conn = "nil"
    /\ refClient = "nil"
    /\ fetchCalled = FALSE
    /\ fconn = "nil"
    /\ frefClient = "nil"
    /\ dialLog = << >>
    /\ fullServiceName = << >>
    /\ streamed = FALSE
    /\ received = << >>
    /\ allResponses = << >>
    /\ remoteStatus = << >>
    /\ jsonBytes = << >>
    /\ fetchErr = << >>
    /\ respMap = NoResponse
    /\ retErr = << >>

InitFetch ==
    /\ endpoint \in Endpoints
    /\ serviceName \in { << "monitoring" >>, << "cost_analysis" >> }
    /\ verb = << "list" >>
    /\ resourceName = << "User" >>
    /\ environment \in { << "dev", "-user" >>, << "dev", "-app" >> }
    /\ token \in { << >>, << "jwt" >> }
    /\ outputFormat \in { "", "yaml", "table" }
    /\ copyToClipboard \in BOOLEAN
    /\ outputFormatExplicit = FALSE
    /\ page = 0
    /\ pageSize = 0
    /\ \E case \in FetchParameterCases :
         /\ fileParameter = case[1]
         /\ jsonParameter = case[2]
         /\ optParameters = case[3]
    /\ aliases = EmptyMap
    /\ FetchStart

\* lines 68-91
LoadConfig ==
    /\ pc = "config"
    /\ \/ Goto("token")
       \/ Return(<< "failed to load config: " >>)
    /\ UNCHANGED << inputVars, dispatchVars, collabVars, fetchCalled, dialLog, callVars, respMap,
                    otherVars >>

\* lines 93-179
CheckToken ==
    /\ pc = "token"
    /\ IF token = << >> THEN Return(<< >>) ELSE Goto("endpoint")
    /\ UNCHANGED << inputVars, dispatchVars, collabVars, fetchCalled, dialLog, callVars, respMap,
                    otherVars >>

\* lines 186-187
UseLocalEndpoint ==
    /\ pc = "endpoint"
    /\ HasPrefix(endpoint, GrpcPrefix)
    /\ Goto("dial")
    /\ UNCHANGED << inputVars, dispatchVars, collabVars, fetchCalled, dialLog, callVars, respMap,
                    otherVars >>

\* lines 189-193
GetAPIEndpoint ==
    /\ pc = "endpoint"
    /\ ~HasPrefix(endpoint, GrpcPrefix)
    /\ \/ /\ \E api \in APIEndpointsOf(endpoint) : apiEndpoint' = api
          /\ collabErr' = collabErr
          /\ Goto("identity")
       \/ /\ collabErr' = "api"
          /\ apiEndpoint' = apiEndpoint
          /\ Exit
    /\ UNCHANGED << inputVars, dispatchVars, identityEndpoint, hasIdentityService, fetchCalled,
                    dialLog, callVars, respMap, otherVars >>

\* lines 195-199
GetIdentityEndpoint ==
    /\ pc = "identity"
    /\ \/ /\ \E id \in IdentityEndpointsOf(apiEndpoint) : identityEndpoint' = id
          /\ hasIdentityService' = TRUE
          /\ collabErr' = collabErr
          /\ Goto("dial")
       \/ /\ identityEndpoint' = << >>
          /\ hasIdentityService' = FALSE
          /\ collabErr' = collabErr
          /\ Goto("dial")
       \/ /\ collabErr' = "identity"
          /\ UNCHANGED << identityEndpoint, hasIdentityService >>
          /\ Exit
    /\ UNCHANGED << inputVars, dispatchVars, apiEndpoint, fetchCalled, dialLog, callVars, respMap,
                    otherVars >>

\* lines 201-258: hostPort, grpc.Dial, the reflection client
Dial ==
    /\ pc = "dial"
    /\ LET r == resolveFetchService(endpoint, apiEndpoint, identityEndpoint,
                                    hasIdentityService, serviceName)
       IN  IF ~r.ok THEN Return(r.err) /\ dialLog' = dialLog
           ELSE /\ dialLog' = Append(dialLog, [by |-> "FetchService",
                                                target |-> r.hostPort])
                /\ \/ /\ pc' = "aliases"
                      /\ conn' = "open"
                      /\ refClient' = "open"
                      /\ UNCHANGED << fconn, frefClient, retErr >>
                   \/ Return(<< "connection failed: " >>)
    /\ UNCHANGED << inputVars, dispatchVars, collabVars, fetchCalled, callVars, respMap, otherVars >>

\* strings.Fields
Fields(s) == SelectSeq(Split(s, << " " >>), LAMBDA field : field # << >>)

\* lines 267-298: the verb is looked up in the service's aliases; an alias of
\* a list command sets the output format and builds new options
ExpandAlias ==
    LET parts == IF verb \in DOMAIN aliases THEN Fields(aliases[verb]) ELSE << >>
        expanded == Len(parts) >= 2
        isList == expanded /\ parts[1] = << "list" >>
        format == IF isList /\ ~outputFormatExplicit THEN "table" ELSE outputFormat
    IN  /\ verb' = IF expanded THEN parts[1] ELSE verb
        /\ resourceName' = IF expanded THEN parts[2] ELSE resourceName
        /\ outputFormat' = format
        /\ callerOptions' = [callerOptions EXCEPT !.OutputFormat = format]
        /\ usesNewOptions' = isList
        /\ page' = IF isList THEN 0 ELSE page
        /\ pageSize' = IF isList THEN 15 ELSE pageSize
        /\ UNCHANGED << optParameters, request >>

\* lines 260-301: the alias table is read, fetchJSONResponse is called
ListAliases ==
    /\ pc = "aliases"
    /\ \/ Goto("f.dial") /\ fetchCalled' = TRUE /\ ExpandAlias
       \/ /\ Return(<< "failed to load aliases: " >>)
          /\ fetchCalled' = fetchCalled
          /\ UNCHANGED dispatchVars
    /\ UNCHANGED << inputVars, collabVars, dialLog, callVars, respMap, otherVars >>

\* lines 490-494: the parameter list with the paging tokens appended
pagingParameters(v, params, p, size) ==
    IF v = << "list" >> /\ p > 0
      THEN params \o << << "page", "=" >> \o FormatInt(p),
                        << "page_size", "=" >> \o FormatInt(size) >>
    ELSE params

\* lines 490-582: paging tokens, hostPort, grpc.Dial, the reflection client
FDial ==
    /\ pc = "f.dial"
    /\ optParameters' = pagingParameters(verb, optParameters, page, pageSize)
    /\ callerOptions' = IF usesNewOptions THEN callerOptions
                        ELSE [callerOptions EXCEPT !.Parameters = optParameters']
    /\ UNCHANGED << verb, resourceName, outputFormat, page, pageSize, usesNewOptions,
                    request >>
    /\ LET r == resolveFetchJSON(endpoint, apiEndpoint, identityEndpoint,
                                 hasIdentityService, serviceName)
       IN  IF ~r.ok THEN FReturn(<< >>, r.err) /\ dialLog' = dialLog
           ELSE /\ dialLog' = Append(dialLog, [by |-> "fetchJSONResponse",
                                                target |-> r.hostPort])
                /\ \/ /\ pc' = "f.discover"
                      /\ fconn' = "open"
                      /\ frefClient' = "open"
                      /\ UNCHANGED << conn, refClient, retErr, jsonBytes, fetchErr >>
                   \/ FReturn(<< >>, << "connection failed: unable to connect to " >>
                                       \o r.hostPort)
    /\ UNCHANGED << inputVars, collabVars, fetchCalled, fullServiceName, streamed,
                    received, allResponses, remoteStatus, respMap, otherVars >>

\* the service lists reflection may report to an invocation
ReflectedLists ==
    { << >>,
      << << "spaceone", ".", "api", ".", "monitoring", ".", "v1", ".", "User" >> >>,
      << << "spaceone", ".", "api", ".", "identity", ".", "v2", ".", "User" >>,
         << "spaceone", ".", "api", ".", "inventory", ".", "plugin", ".", "User" >> >> }

\* lines 584-587
FDiscover ==
    /\ pc = "f.discover"
    /\ \E list \in ReflectedLists, listErr \in BOOLEAN :
         LET d == discoverService(list, listErr, serviceName, resourceName)
         IN  IF d.ok
               THEN /\ fullServiceName' = d.name
                    /\ Goto("f.resolve")
                    /\ UNCHANGED << jsonBytes, fetchErr >>
             ELSE /\ fullServiceName' = fullServiceName
                  /\ FReturn(<< >>, << "failed to discover service: " >> \o d.err)
    /\ UNCHANGED << inputVars, dispatchVars, collabVars, fetchCalled, dialLog, streamed, received,
                    allResponses, remoteStatus, respMap, otherVars >>

\* lines 589-601: the method descriptor and its streaming shape
FResolveMethod ==
    /\ pc = "f.resolve"
    /\ \/ /\ FReturn(<< >>, << "failed to resolve service " >> \o fullServiceName)
          /\ streamed' = streamed
       \/ /\ FReturn(<< >>, << "method not found: " >> \o verb)
          /\ streamed' = streamed
       \/ /\ streamed' \in BOOLEAN
          /\ Goto("f.parse")
          /\ UNCHANGED << jsonBytes, fetchErr >>
    /\ UNCHANGED << inputVars, dispatchVars, collabVars, fetchCalled, dialLog, fullServiceName,
                    received, allResponses, remoteStatus, respMap, otherVars >>

\* lines 603-618: the request message
FBuildRequest ==
    /\ pc = "f.parse"
    /\ LET in == parseParameters(fileParameter, jsonParameter, optParameters)
       IN  IF in.status = "error"
             THEN FReturn(<< >>, in.err) /\ request' = request
           ELSE IF in.status = "panic"
             THEN Panic /\ UNCHANGED << jsonBytes, fetchErr, request >>
           ELSE \/ /\ Goto(IF streamed THEN "f.stream" ELSE "f.invoke")
                   /\ request' = [built |-> TRUE, file |-> fileParameter,
                                  json |-> jsonParameter, params |-> optParameters,
                                  mapping |-> in.parsed]
                   /\ UNCHANGED << jsonBytes, fetchErr >>
                \/ /\ FReturn(<< >>,
                              << "failed to unmarshal JSON into request message: " >>)
                   /\ request' = request
    /\ UNCHANGED << verb, resourceName, outputFormat, page, pageSize, optParameters,
                    callerOptions, usesNewOptions >>
    /\ UNCHANGED << inputVars, collabVars, fetchCalled, dialLog, fullServiceName,
                    streamed, received, allResponses, remoteStatus, respMap,
                    otherVars >>

\* lines 624-641: the stream is opened, the request sent, the send side closed
FOpenStream ==
    /\ pc = "f.stream"
    /\ \/ /\ Goto("f.recv")
          /\ UNCHANGED << remoteStatus, jsonBytes, fetchErr >>
       \/ \E status \in RemoteStatuses,
             what \in { "failed to create stream: ", "failed to send request message: ",
                        "failed to close send: " } :
            /\ remoteStatus' = status
            /\ FReturn(<< >>, << what >> \o status)
    /\ UNCHANGED << inputVars, dispatchVars, collabVars, fetchCalled, dialLog, fullServiceName,
                    streamed, received, allResponses, respMap, otherVars >>

\* lines 644-660: one round of the receive loop that gets a message
FRecvMsg ==
    /\ pc = "f.recv"
    /\ Len(received) < MaxMsgs
    /\ \E m \in Messages :
         /\ received' = Append(received, m)
         /\ \/ /\ allResponses' = Append(allResponses, MarshalJSON(m))
               /\ Goto("f.recv")
               /\ UNCHANGED << jsonBytes, fetchErr >>
            \/ /\ allResponses' = allResponses
               /\ FReturn(<< >>, << "failed to marshal response: " >>)
    /\ UNCHANGED << inputVars, dispatchVars, collabVars, fetchCalled, dialLog, fullServiceName,
                    streamed, remoteStatus, respMap, otherVars >>

\* lines 646-652 leaving the loop on a failure as on end of stream
FRecvErrorPartial ==
    /\ pc = "f.recv"
    /\ \E status \in RemoteStatuses :
         /\ remoteStatus' = status
         /\ FReturn(streamResult(allResponses), << >>)
    /\ UNCHANGED << inputVars, dispatchVars, collabVars, fetchCalled, dialLog, fullServiceName,
                    streamed, received, allResponses, respMap, otherVars >>

\* lines 646-652: the round of the receive loop whose RecvMsg fails
FRecvError ==
    /\ pc = "f.recv"
    /\ \E status \in RemoteStatuses :
         /\ remoteStatus' = status
         /\ FReturn(<< >>, << "failed to receive response: " >> \o status)
    /\ UNCHANGED << inputVars, dispatchVars, collabVars, fetchCalled, dialLog, fullServiceName,
                    streamed, received, allResponses, respMap, otherVars >>

\* lines 647-649 and 662-667: end of stream
FRecvEOF ==
    /\ pc = "f.recv"
    /\ FReturn(streamResult(allResponses), << >>)
    /\ UNCHANGED << inputVars, dispatchVars, collabVars, fetchCalled, dialLog, fullServiceName,
                    streamed, received, allResponses, remoteStatus, respMap,
                    otherVars >>

\* lines 670-741: the unary call
FInvoke ==
    /\ pc = "f.invoke"
    /\ \/ \E status \in RemoteStatuses :
            /\ remoteStatus' = status
            /\ FReturn(<< >>, invokeError(status, environment, FullMethod))
       \/ /\ remoteStatus' = remoteStatus
          /\ \E m \in Messages :
               \/ FReturn(MarshalJSON(m), << >>)
               \/ FReturn(<< >>, << "failed to marshal response: " >>)
    /\ UNCHANGED << inputVars, dispatchVars, collabVars, fetchCalled, dialLog, fullServiceName,
                    streamed, received, allResponses, respMap, otherVars >>

\* lines 301-389 up to printData: the error of fetchJSONResponse, the decoding
HandleResponse ==
    /\ pc = "fetched"
    /\ LET u == UnmarshalResponse(jsonBytes)
       IN  IF fetchErr # << >> THEN Return(fetchServiceError(fetchErr)) /\ respMap' = respMap
           ELSE IF ~u.ok
             THEN Return(<< "failed to unmarshal JSON: " >>) /\ respMap' = respMap
           ELSE /\ respMap' = u.value
                /\ IF outputFormat # "" THEN Goto("print") ELSE Return(<< >>)
    /\ UNCHANGED << inputVars, dispatchVars, collabVars, fetchCalled, dialLog, callVars, otherVars >>

\* printData's output string: the table and CSV renderers return ""
HasOutput == outputFormat \notin { "table", "csv" }

\* lines 386-389 and 912-959: printData, then return respMap, nil
PrintData ==
    /\ pc = "print"
    /\ \/ Return(<< >>)
       \/ /\ copyToClipboard
          /\ HasOutput
          /\ Exit
    /\ UNCHANGED << inputVars, dispatchVars, collabVars, fetchCalled, dialLog, callVars, respMap,
                    otherVars >>

Next ==
    \/ LoadConfig
    \/ CheckToken
    \/ UseLocalEndpoint
    \/ GetAPIEndpoint
    \/ GetIdentityEndpoint
    \/ Dial
    \/ ListAliases
    \/ FDial
    \/ FDiscover
    \/ FResolveMethod
    \/ FBuildRequest
    \/ FOpenStream
    \/ FRecvMsg
    \/ FRecvError
    \/ FRecvEOF
    \/ FInvoke
    \/ HandleResponse
    \/ PrintData

Spec == InitFetch /\ [][Next]_vars

(***************************************************************************)
(* The same invocation over the inputs that decide the dispatch: verb,     *)
(* aliases, paging options and the three parameter sources.                *)
(***************************************************************************)
Number(n) == [t |-> "number", v |-> FormatInt(n)]

\* the service's aliases in the setting file
AliasTables ==
    { EmptyMap,
      [t \in { << "ls" >>, << "g" >> } |->
          IF t = << "ls" >> THEN << "list", " ", "User" >>
          ELSE << "get", " ", "User" >>] }

\* a resource name typed with the wording of a required-parameter status
EchoResource ==
    << "ERROR_REQUIRED_PARAMETER", " ", "Required parameter. (", "key = ", "x", ")" >>

\* verb and resource name as the command line gives them
Invocations ==
    { << << "list" >>, << "User" >> >>, << << "ls" >>, << >> >>,
      << << "g" >>, << >> >>, << << "list" >>, EchoResource >> }

\* the three parameter sources: all empty, or each supplying paging keys
DispatchSources ==
    { << [kind |-> "none", data |-> EmptyMap], [kind |-> "none", data |-> EmptyMap],
         << >> >>,
      << [kind |-> "map", data |-> [k \in { << "page_size" >> } |-> Number(3)]],
         [kind |-> "object", data |-> [k \in { << "page" >> } |-> Number(7)]],
         << << "page", "=", "5" >>, << "name", "=", "test" >> >> >> }

InitDispatch ==
    /\ endpoint \in { LocalEndpoint, SSLEndpointWithPath }
    /\ serviceName = << "identity" >>
    /\ \E inv \in Invocations : verb = inv[1] /\ resourceName = inv[2]
    /\ environment = << "dev", "-user" >>
    /\ token = << "jwt" >>
    /\ outputFormat \in { "", "yaml" }
    /\ copyToClipboard = FALSE
    /\ outputFormatExplicit \in BOOLEAN
    /\ page \in { 0, 2 }
    /\ pageSize = 10
    /\ \E sources \in DispatchSources :
         /\ fileParameter = sources[1]
         /\ jsonParameter = sources[2]
         /\ optParameters = sources[3]
    /\ aliases \in AliasTables
    /\ FetchStart

SpecDispatch == InitDispatch /\ [][Next]_vars

(***************************************************************************)
(* Process start: init, its cache loader goroutine and                     *)
(* addDynamicServiceCommands (src/unnamed/part_000)                        *)
(***************************************************************************)
nonWarmVars == << discVars, paramVars, postVars, fetchVars, uiVars >>

\* the endpoint of the current environment, as the setting file may hold it
InventoryEndpoint ==
    GrpcSSLPrefix \o << "inventory", ".", "api", ".", "dev", ".", "example", ".", "dev",
                        ":", "443" >>

InitEndpoints == { LocalEndpoint, SSLEndpoint, InventoryEndpoint, GatewayEndpoint }

\* the first argument of the command line
Args == { "identity", "setting", "__complete" }

\* what a readable, fresh cache file decodes to (an empty file decodes to nil)
CacheFiles ==
    { NilMap,
      [src |-> "cache", names |-> { "identity", "inventory" }],
      [src |-> "cache", names |-> { "identity", "inventory", "monitoring" }] }

\* what rest.FetchEndpointsMap returns from the API server
LiveMap == [src |-> "live", names |-> { "identity", "monitoring" }]

\* lines 530-539 and 580-589: the first host label of a grpc+ssl endpoint,
\* the text before the first "." of what follows the only "://"
currentService(configured) ==
    LET host == TrimPrefix(configured, GrpcSSLPrefix)
        dot == Index(host, << "." >>)
        label == IF dot = 0 THEN host ELSE SubSeq(host, 1, dot - 1)
    IN  IF ~HasPrefix(configured, GrpcSSLPrefix) THEN ""
        ELSE IF Contains(host, << ":", "/", "/" >>) THEN ""
        ELSE IF label = << >> THEN ""
        ELSE label[1]

\* lines 541-554 and 591-602: the service commands added for a mapping
commandsFor(configured, names) ==
    IF currentService(configured) # "identity" /\ currentService(configured) # ""
      THEN { currentService(configured) }
    ELSE names

\* what a read of the map's entries may observe: without a happens-before
\* edge from the loader's writes the read races with them
Visible(map) ==
    IF map.src = "cache" /\ ~doneReceived THEN SUBSET map.names
    ELSE { map.names }

InitWarmUp ==
    /\ DiscIdle
    /\ ParamIdle
    /\ PostIdle
    /\ FetchIdle
    /\ UIIdle
    /\ ipc = "select"
    /\ lpc = "load"
    /\ osArgs \in Args
    /\ initEndpoint \in InitEndpoints
    /\ cachedEndpointsMap = NilMap
    /\ endpoints = NilMap
    /\ doneReceived = FALSE
    /\ timedOut = FALSE
    /\ lateInstall = FALSE
    /\ cacheReads = << >>
    /\ liveStored = FALSE
    /\ registered = {}

\* line 344 and lines 612-657: the loader reads the cache file
LoadCachedEndpoints ==
    /\ lpc = "load"
    /\ \/ \E file \in CacheFiles : endpoints' = file /\ lpc' = "assign"
       \/ endpoints' = NilMap /\ lpc' = "send"
    /\ UNCHANGED << ipc, osArgs, initEndpoint, cachedEndpointsMap, doneReceived,
                    timedOut, lateInstall, cacheReads, liveStored, registered,
                    nonWarmVars >>

\* line 345
AssignCache ==
    /\ lpc = "assign"
    /\ cachedEndpointsMap' = endpoints
    /\ lateInstall' = (lateInstall \/ timedOut)
    /\ lpc' = "send"
    /\ UNCHANGED << ipc, osArgs, initEndpoint, endpoints, doneReceived, timedOut,
                    cacheReads, liveStored, registered, nonWarmVars >>

\* lines 347 and 351: the unbuffered channel hands over while init waits
DoneReceived ==
    /\ lpc = "send"
    /\ ipc = "select"
    /\ lpc' = "exited"
    /\ ipc' = "args"
    /\ doneReceived' = TRUE
    /\ UNCHANGED << osArgs, initEndpoint, cachedEndpointsMap, endpoints, timedOut,
                    lateInstall, cacheReads, liveStored, registered, nonWarmVars >>

\* lines 352-356: the timer fires; init returns if the warning cannot be written
TimeAfter ==
    /\ ipc = "select"
    /\ timedOut' = TRUE
    /\ ipc' \in { "args", "returned" }
    /\ UNCHANGED << lpc, osArgs, initEndpoint, cachedEndpointsMap, endpoints,
                    doneReceived, lateInstall, cacheReads, liveStored, registered,
                    nonWarmVars >>

\* lines 359-370
CheckArgs ==
    /\ ipc = "args"
    /\ ipc' = IF osArgs = "setting" THEN "other" ELSE "loadConfig"
    /\ UNCHANGED << lpc, osArgs, initEndpoint, cachedEndpointsMap, endpoints,
                    doneReceived, timedOut, lateInstall, cacheReads, liveStored,
                    registered, nonWarmVars >>

\* lines 510-526: loadConfig and, for a gateway endpoint, rest.GetAPIEndpoint
LoadInitConfig ==
    /\ ipc = "loadConfig"
    /\ ipc' \in { "check", "other" }
    /\ UNCHANGED << lpc, osArgs, initEndpoint, cachedEndpointsMap, endpoints,
                    doneReceived, timedOut, lateInstall, cacheReads, liveStored,
                    registered, nonWarmVars >>

\* lines 529-547
CheckCache ==
    /\ ipc = "check"
    /\ cacheReads' = Append(cacheReads, cachedEndpointsMap)
    /\ IF cachedEndpointsMap = NilMap
         THEN ipc' = "fetch" /\ registered' = registered
       ELSE IF currentService(initEndpoint) # "identity" /\ currentService(initEndpoint) # ""
         THEN /\ ipc' = "other"
              /\ registered' = registered \cup { currentService(initEndpoint) }
       ELSE ipc' = "range" /\ registered' = registered
    /\ UNCHANGED << lpc, osArgs, initEndpoint, cachedEndpointsMap, endpoints,
                    doneReceived, timedOut, lateInstall, liveStored, nonWarmVars >>

\* lines 550-555
RangeCache ==
    /\ ipc = "range"
    /\ \E names \in Visible(cachedEndpointsMap) :
         /\ cacheReads' = Append(cacheReads, [src |-> cachedEndpointsMap.src,
                                               names |-> names])
         /\ registered' = registered \cup names
    /\ ipc' = "other"
    /\ UNCHANGED << lpc, osArgs, initEndpoint, cachedEndpointsMap, endpoints,
                    doneReceived, timedOut, lateInstall, liveStored, nonWarmVars >>

\* lines 559-569
FetchEndpointsMap ==
    /\ ipc = "fetch"
    /\ ipc' \in { "store", "other" }
    /\ UNCHANGED << lpc, osArgs, initEndpoint, cachedEndpointsMap, endpoints,
                    doneReceived, timedOut, lateInstall, cacheReads, liveStored,
                    registered, nonWarmVars >>

\* lines 571-576
StoreLive ==
    /\ ipc = "store"
    /\ cachedEndpointsMap' = LiveMap
    /\ liveStored' = TRUE
    /\ ipc' = "registerLive"
    /\ UNCHANGED << lpc, osArgs, initEndpoint, endpoints, doneReceived, timedOut,
                    lateInstall, cacheReads, registered, nonWarmVars >>

\* lines 578-609
RegisterLive ==
    /\ ipc = "registerLive"
    /\ registered' = registered \cup commandsFor(initEndpoint, LiveMap.names)
    /\ ipc' = "other"
    /\ UNCHANGED << lpc, osArgs, initEndpoint, cachedEndpointsMap, endpoints,
                    doneReceived, timedOut, lateInstall, cacheReads, liveStored,
                    nonWarmVars >>

\* lines 376-401: the fixed commands; log.Fatalf without a home directory
RegisterOther ==
    /\ ipc = "other"
    /\ ipc' \in { "done", "fatal" }
    /\ UNCHANGED << lpc, osArgs, initEndpoint, cachedEndpointsMap, endpoints,
                    doneReceived, timedOut, lateInstall, cacheReads, liveStored,
                    registered, nonWarmVars >>

Loader == LoadCachedEndpoints \/ AssignCache

InitSteps ==
    \/ DoneReceived
    \/ TimeAfter
    \/ CheckArgs
    \/ LoadInitConfig
    \/ CheckCache
    \/ RangeCache
    \/ FetchEndpointsMap
    \/ StoreLive
    \/ RegisterLive
    \/ RegisterOther

NextWarmUp == Loader \/ InitSteps

SpecWarmUp == InitWarmUp /\ [][NextWarmUp]_vars

\* init runs on the main goroutine and the runtime timer fires: its steps
\* are taken when they stay enabled; the loader's file reads may never return
SpecWarmUpFair == SpecWarmUp /\ WF_vars(InitSteps)

\* the same, and once loadCachedEndpoints has returned the loader goroutine is
\* scheduled: its assignment is taken; its send needs init as the receiver
SpecLoaderFair == SpecWarmUp /\ WF_vars(InitSteps) /\ WF_vars(AssignCache)

(***************************************************************************)
(* printTable, lines 1047-1172: the interactive pager over a list result.  *)
(* A row is [isMap, value]: value is the text of the row's one field, a    *)
(* sequence of characters.                                                 *)
(***************************************************************************)
\* longest list the pager is given
MaxTable == 3

\* the page size printTable sets when none is given (line 1053)
defaultPageSize == 15

\* strings.ToLower on the characters of the model
ToLower(text) ==
    [i \in 1..Len(text) |-> IF text[i] = "A" THEN "a"
                            ELSE IF text[i] = "B" THEN "b"
                            ELSE IF text[i] = "C" THEN "c"
                            ELSE text[i]]

TableRow(text) == [isMap |-> TRUE, value |-> text]

\* an element of results that is not a map
TableScalar == [isMap |-> FALSE, value |-> << >>]

TableRows == { TableRow(<< "a", "b" >>), TableRow(<< "A", "c" >>), TableScalar }

\* what the user types after "/"; the empty text is an empty line
SearchInputs == { << >>, << "a" >>, << "C" >>, << "z" >> }

\* lines 1194-1210
filterResults(list, term) ==
    SelectSeq(list, LAMBDA row :
                  row.isMap /\ Contains(ToLower(row.value), ToLower(term)))

InitTable ==
    /\ FetchIdle
    /\ WarmIdle
    /\ DiscIdle
    /\ ParamIdle
    /\ PostIdle
    /\ WatchIdle
    /\ tpc = "open"
    /\ tableResults \in SeqsUpTo(TableRows, MaxTable)
    /\ noPaging \in BOOLEAN
    /\ tablePageSize \in 0..2
    /\ currentPage = 0
    /\ searchTerm = << >>
    /\ tableFiltered = << >>
    /\ totalPages = 0
    /\ startIdx = 0
    /\ endIdx = 0

tableOthers == << discVars, paramVars, postVars, fetchVars, warmVars, watchVars >>

\* lines 1048-1066: the page size, the keyboard, the loop variables
OpenTable ==
    /\ tpc = "open"
    /\ tablePageSize' = IF ~noPaging
                          THEN IF tablePageSize = 0 THEN defaultPageSize
                               ELSE tablePageSize
                        ELSE Len(tableResults)
    /\ \/ /\ tpc' = "render"
          /\ tableFiltered' = tableResults
       \/ /\ tpc' = "returned"
          /\ tableFiltered' = tableFiltered
    /\ UNCHANGED << tableResults, noPaging, currentPage, searchTerm, totalPages,
                    startIdx, endIdx, tableOthers >>

\* lines 1102-1141: one pass of the loop up to keyboard.GetKey; a division by
\* zero and a slice with start beyond end are run-time panics
RenderPage ==
    /\ tpc = "render"
    /\ LET shown == IF searchTerm # << >> THEN filterResults(tableResults, searchTerm)
                    ELSE tableResults
           totalItems == Len(shown)
           start == currentPage * tablePageSize
           end == IF start + tablePageSize > totalItems THEN totalItems
                  ELSE start + tablePageSize
       IN  /\ tableFiltered' = shown
           /\ IF tablePageSize = 0
                THEN /\ tpc' = "panic"
                     /\ UNCHANGED << totalPages, startIdx, endIdx >>
              ELSE /\ totalPages' = (totalItems + tablePageSize - 1) \div tablePageSize
                   /\ startIdx' = start
                   /\ endIdx' = end
                   /\ tpc' = IF start > end THEN "panic" ELSE "key"
    /\ UNCHANGED << tableResults, noPaging, tablePageSize, currentPage, searchTerm,
                    tableOthers >>

\* lines 1151-1152: 'l'; the remainder by zero is a run-time panic
NextPage ==
    /\ tpc = "key"
    /\ IF totalPages = 0
         THEN tpc' = "panic" /\ currentPage' = currentPage
       ELSE tpc' = "render" /\ currentPage' = (currentPage + 1) % totalPages
    /\ UNCHANGED << tableResults, noPaging, tablePageSize, searchTerm, tableFiltered,
                    totalPages, startIdx, endIdx, tableOthers >>

\* lines 1153-1154: 'h'
PreviousPage ==
    /\ tpc = "key"
    /\ IF totalPages = 0
         THEN tpc' = "panic" /\ currentPage' = currentPage
       ELSE /\ tpc' = "render"
            /\ currentPage' = (currentPage - 1 + totalPages) % totalPages
    /\ UNCHANGED << tableResults, noPaging, tablePageSize, searchTerm, tableFiltered,
                    totalPages, startIdx, endIdx, tableOthers >>

\* lines 1157-1159: 'c'
ClearSearch ==
    /\ tpc = "key"
    /\ searchTerm' = << >>
    /\ currentPage' = 0
    /\ tpc' = "render"
    /\ UNCHANGED << tableResults, noPaging, tablePageSize, tableFiltered, totalPages,
                    startIdx, endIdx, tableOthers >>

\* lines 1160-1167: '/'
Search ==
    /\ tpc = "key"
    /\ \E input \in SearchInputs : searchTerm' = input
    /\ currentPage' = 0
    /\ tpc' = "render"
    /\ UNCHANGED << tableResults, noPaging, tablePageSize, tableFiltered, totalPages,
                    startIdx, endIdx, tableOthers >>

\* lines 1144-1148 and 1155-1156: 'q', or keyboard.GetKey fails
Quit ==
    /\ tpc = "key"
    /\ tpc' = "returned"
    /\ UNCHANGED << tableResults, noPaging, tablePageSize, currentPage, searchTerm,
                    tableFiltered, totalPages, startIdx, endIdx, tableOthers >>

NextTable ==
    \/ OpenTable
    \/ RenderPage
    \/ NextPage
    \/ PreviousPage
    \/ ClearSearch
    \/ Search
    \/ Quit

SpecTable == InitTable /\ [][NextTable]_vars

(***************************************************************************)
(* WatchResource, lines 824-910.  An item is the identifier that           *)
(* format.GenerateIdentifier gives it; 0 stands for an element of results  *)
(* that is not a map.  A call of FetchService ends as the invocation       *)
(* above ends: with data, with an error, or in os.Exit.                    *)
(***************************************************************************)
\* most ticks the model handles
MaxPolls == 3

\* longest result list of one fetch
MaxFetched == 2

WatchIds == { 1, 2 }

FetchedLists == SeqsUpTo(WatchIds \cup { 0 }, MaxFetched)

\* the identifiers of the maps among the elements of list
Identifiers(list) == { list[i] : i \in 1..Len(list) } \ { 0 }

InitWatch ==
    /\ FetchIdle
    /\ WarmIdle
    /\ DiscIdle
    /\ ParamIdle
    /\ PostIdle
    /\ TableIdle
    /\ wpc = "initial"
    /\ initialItems = {}
    /\ seenItems = {}
    /\ reportCount = [id \in WatchIds |-> 0]
    /\ polls = 0
    /\ lastPoll = "none"
    /\ interrupted = FALSE

watchOthers == << discVars, paramVars, postVars, fetchVars, warmVars, tableVars >>

\* lines 833-866: the initial fetch
InitialFetch ==
    /\ wpc = "initial"
    /\ \/ \E list \in FetchedLists :
            /\ initialItems' = Identifiers(list)
            /\ seenItems' = Identifiers(list)
            /\ lastPoll' = "data"
            /\ wpc' = "watching"
       \/ /\ lastPoll' = "error"
          /\ wpc' = "returned"
          /\ UNCHANGED << initialItems, seenItems >>
       \/ /\ lastPoll' = "exit"
          /\ wpc' = "exited"
          /\ UNCHANGED << initialItems, seenItems >>
    /\ UNCHANGED << reportCount, polls, interrupted, watchOthers >>

\* lines 870-902: a tick of the ticker
Tick ==
    /\ wpc = "watching"
    /\ polls < MaxPolls
    /\ polls' = polls + 1
    /\ \/ \E list \in FetchedLists :
            LET newItems == Identifiers(list) \ seenItems
            IN  /\ reportCount' = [id \in WatchIds |->
                                     IF id \in newItems THEN reportCount[id] + 1
                                     ELSE reportCount[id]]
                /\ seenItems' = seenItems \cup newItems
                /\ lastPoll' = "data"
                /\ wpc' = "watching"
       \/ /\ lastPoll' = "error"
          /\ wpc' = "watching"
          /\ UNCHANGED << reportCount, seenItems >>
       \/ /\ lastPoll' = "exit"
          /\ wpc' = "exited"
          /\ UNCHANGED << reportCount, seenItems >>
    /\ UNCHANGED << initialItems, interrupted, watchOthers >>

\* os.Interrupt arrives and signal.Notify puts it into sigChan (line 829)
Interrupt ==
    /\ wpc \in { "initial", "watching" }
    /\ ~interrupted
    /\ interrupted' = TRUE
    /\ UNCHANGED << wpc, initialItems, seenItems, reportCount, polls, lastPoll,
                    watchOthers >>

\* lines 904-906
StopWatch ==
    /\ wpc = "watching"
    /\ interrupted
    /\ wpc' = "stopped"
    /\ UNCHANGED << initialItems, seenItems, reportCount, polls, lastPoll,
                    interrupted, watchOthers >>

NextWatch == InitialFetch \/ Tick \/ Interrupt \/ StopWatch

SpecWatch == InitWatch /\ [][NextWatch]_vars

(***************************************************************************)
(* Properties                                                              *)
(***************************************************************************)
PluginIdx ==
    { i \in 1..Len(services) :
        /\ Contains(services[i], << ".", "plugin", "." >>)
        /\ HasSuffix(services[i], dResourceName) }

APIIdx ==
    { i \in 1..Len(services) :
        /\ Contains(services[i], << "spaceone", ".", "api", "." >> \o dServiceName)
        /\ HasSuffix(services[i], dResourceName) }

\* C2: when the reflected list holds a plugin-namespace match and a
\* versioned-API match for (serviceName, resourceName), discoverService
\* returns the first plugin-namespace match in list order, wherever the
\* versioned-API match sits.
C2_PluginOverAPI ==
    (dpc = "returned" /\ ~listServicesFails /\ PluginIdx # {} /\ APIIdx # {})
        => /\ discovered.ok
           /\ \E i \in PluginIdx :
                /\ \A j \in PluginIdx : i <= j
                /\ discovered.name = services[i]

\* a versioned-API match stands before the plugin match that is returned
C2_Witness ==
    /\ dpc = "returned"
    /\ \E i \in APIIdx \ PluginIdx : \E j \in PluginIdx :
         /\ i < j
         /\ discovered.ok
         /\ discovered.name = services[j]
         /\ services[i] # services[j]

\* the place an item of the sorted list had in the input list
InputPos(item) == item.fields["id"].n

\* C1: any two items whose sort-field values are equal appear in the sorted
\* output in the same relative order as in the input.
C1_SortStable ==
    (spc = "sorted" /\ sortBy # "")
        => \A a, b \in 1..Len(sorted) :
             ( /\ a < b
               /\ sortBy \in DOMAIN sorted[a].fields
               /\ sortBy \in DOMAIN sorted[b].fields
               /\ sorted[a].fields[sortBy] = sorted[b].fields[sortBy] )
                 => InputPos(sorted[a]) < InputPos(sorted[b])

\* the key=value tokens of options.Parameters that name key k
TokensFor(k) ==
    { i \in 1..Len(parameters) : HasPrefix(parameters[i], k \o << "=" >>) }

LastTokenFor(k) == CHOOSE i \in TokensFor(k) : \A j \in TokensFor(k) : j <= i

\* the text after the first "=" of the last token naming k
LastTokenValue(k) ==
    LET tok == parameters[LastTokenFor(k)]
    IN  SubSeq(tok, Len(k) + 2, Len(tok))

\* the dynamic value that text stands for: a JSON literal, else the plain string
TokenMeaning(text) ==
    IF text \in { << "3" >>, << "15" >> } THEN [t |-> "number", v |-> text]
    ELSE IF text \in { << "true" >>, << "false" >> } THEN [t |-> "bool", v |-> text]
    ELSE IF text = << "null" >> THEN [t |-> "null", v |-> << >>]
    ELSE [t |-> "string", v |-> text]

AllKeys == { << "name" >>, << "query" >>, << "count" >> }

FileKeys == IF fileParameter.kind = "map" THEN DOMAIN fileParameter.data ELSE {}

JSONKeys == IF jsonParameter.kind = "object" THEN DOMAIN jsonParameter.data ELSE {}

ParamKeys == { k \in AllKeys : TokensFor(k) # {} }

Parsed == ppc = "returned" /\ parsedOut.status = "ok"

\* C4: a key supplied by the file source and by key=value tokens holds, in
\* the resulting mapping, the value of the last such token.
C4_ParamOverFile ==
    Parsed => \A k \in FileKeys \cap ParamKeys :
                 /\ k \in DOMAIN parsedOut.parsed
                 /\ parsedOut.parsed[k] = TokenMeaning(LastTokenValue(k))

\* a key of the file source is overwritten by the second of two tokens
C4_Witness ==
    /\ Parsed
    /\ \E k \in FileKeys \cap ParamKeys :
         /\ Cardinality(TokensFor(k)) = 2
         /\ parameters[1] # parameters[2]
         /\ parsedOut.parsed[k] # fileParameter.data[k]
         /\ parsedOut.parsed[k] = TokenMeaning(LastTokenValue(k))

\* C5 as claimed: the inline blob wins over the file source and over the
\* key=value tokens.
C5_InlineHighest ==
    Parsed => \A k \in JSONKeys \cap (FileKeys \cup ParamKeys) :
                 /\ k \in DOMAIN parsedOut.parsed
                 /\ parsedOut.parsed[k] = jsonParameter.data[k]

\* C5: a top-level key of the inline blob replaces the file source's value
\* for that key, and is itself replaced by a key=value token naming the key.
C5_InlineOverFileUnderParam ==
    Parsed => \A k \in JSONKeys :
                 /\ k \in DOMAIN parsedOut.parsed
                 /\ parsedOut.parsed[k] =
                      IF k \in ParamKeys THEN TokenMeaning(LastTokenValue(k))
                      ELSE jsonParameter.data[k]

\* one key taken from the blob over the file, another taken from a token
\* over the blob
C5_Witness ==
    /\ Parsed
    /\ \E k \in (JSONKeys \cap FileKeys) \ ParamKeys :
         /\ fileParameter.data[k] # jsonParameter.data[k]
         /\ parsedOut.parsed[k] = jsonParameter.data[k]
    /\ \E k \in JSONKeys \cap ParamKeys :
         parsedOut.parsed[k] # jsonParameter.data[k]

(***************************************************************************)
(* Properties of one FetchService invocation                               *)
(***************************************************************************)
Terminal == { "returned", "exited", "panicked" }

Decoded == respMap.shape # "none"

\* C3: for a server-streaming call the decoded result is shaped by the number
\* of messages received before end-of-stream: none gives an empty results
\* list, exactly one gives that message unwrapped, two or more give the
\* results list holding the messages in the order they were received.
C3_StreamNormalization ==
    (streamed /\ Decoded) =>
        /\ Len(received) = 0 =>
             respMap = [shape |-> "results", results |-> << >>, message |-> ""]
        /\ Len(received) = 1 =>
             respMap = [shape |-> "message", results |-> << >>,
                        message |-> received[1]]
        /\ Len(received) >= 2 =>
             respMap = [shape |-> "results", results |-> received, message |-> ""]

C3_Witness ==
    /\ streamed
    /\ pc = "returned"
    /\ Len(received) = 3
    /\ received[1] # received[2]
    /\ respMap.shape = "results"
    /\ respMap.results = received

\* a secure direct address grpc+ssl://L1.L2...Ln:port with at least four labels
SecureDirect ==
    /\ HasPrefix(endpoint, GrpcSSLPrefix)
    /\ ~Contains(TrimPrefix(endpoint, GrpcSSLPrefix), << "/" >>)
    /\ Len(Split(TrimPrefix(endpoint, GrpcSSLPrefix), << "." >>)) >= 4

\* the canonical service name in place of L1, then L2...Ln and the port
FirstLabelReplaced ==
    LET address == TrimPrefix(endpoint, GrpcSSLPrefix)
    IN  ConvertServiceName(serviceName) \o SubSeq(address, 2, Len(address))

DialedBy(who) == { dialLog[i].target : i \in { j \in 1..Len(dialLog) : dialLog[j].by = who } }

FetchResolved == fetchCalled /\ pc # "f.dial"

\* C6: for every secure direct address grpc+ssl://L1.L2...Ln:port and every
\* service name, each address the invocation resolves and dials is the
\* canonical service name in place of L1 followed by L2...Ln and the port.
C6_FirstLabelReplaced ==
    SecureDirect =>
        /\ \A i \in 1..Len(dialLog) : dialLog[i].target = FirstLabelReplaced
        /\ FetchResolved => DialedBy("fetchJSONResponse") = { FirstLabelReplaced }

\* C7: with the endpoint grpc+ssl://identity.api.dev.example.dev:443, no
\* bootstrap identity service reported and the service monitoring, the
\* address fetchJSONResponse dials for the remote call is
\* monitoring.api.dev.example.dev:443.
C7_ScenarioAddress ==
    ( /\ endpoint = SSLEndpoint
      /\ serviceName = << "monitoring" >>
      /\ ~hasIdentityService
      /\ FetchResolved )
    => DialedBy("fetchJSONResponse")
         = { << "monitoring", ".", "api", ".", "dev", ".", "example", ".", "dev",
                ":", "443" >> }

\* C8: when the invocation ends, on whatever exit path, every connection and
\* reflection client it opened has been closed or reset.
C8_ReleasedOnEveryExit ==
    pc \in Terminal =>
        /\ conn # "open"
        /\ refClient # "open"
        /\ fconn # "open"
        /\ frefClient # "open"

\* C9: a failure of GetAPIEndpoint or GetIdentityEndpoint is returned to the
\* caller as an error value; the invocation never ends the process instead.
C9_CollaboratorErrorReturned ==
    (collabErr # "none" /\ pc \in Terminal) => (pc = "returned" /\ retErr # << >>)

\* C10: whenever the remote call fails with a status of invalid or expired
\* credentials, on the unary and on the streaming path alike, the error
\* returned to the caller is the authentication classification.
C10_AuthClassified ==
    (pc = "returned" /\ IsAuthStatus(remoteStatus)) =>
        retErr \in { << "authentication required" >>, << "app token required" >> }

(***************************************************************************)
(* Properties of process start                                             *)
(***************************************************************************)
\* init has left its select statement
LeftWait == ipc # "select"

\* init has gone on to register commands (lines 359-385)
Registering == ipc \in { "args", "loadConfig", "check", "range", "fetch", "store",
                         "registerLive", "other", "done", "fatal" }

\* the wait itself always ends, whether the loader ever finishes or not
WaitEnds == <>LeftWait

\* C11: whether or not the background load ever completes, init leaves its
\* wait after at most the timeout and continues with command registration.
C11_WaitEndsAndRegisters == <>Registering

\* C12: once the timeout branch is taken the loader never installs its
\* result: no command is registered from a late-loaded cache and a mapping
\* stored by the main path is never overwritten by the loader.
C12_NoLateInstall ==
    timedOut =>
        /\ ~lateInstall
        /\ \A i \in 1..Len(cacheReads) : cacheReads[i].src # "cache"
        /\ liveStored => cachedEndpointsMap = LiveMap

ListAliasResources ==
    { Fields(aliases[t])[2] :
        t \in { a \in DOMAIN aliases : /\ Len(Fields(aliases[a])) >= 2
                                      /\ Fields(aliases[a])[1] = << "list" >> } }

\* what the explicit invocation list R with the caller's options sends
ExplicitRequest ==
    parseParameters(fileParameter, jsonParameter,
                    pagingParameters(<< "list" >>, options0.Parameters,
                                     options0.Page, options0.PageSize))

\* C14: an invocation through an alias of 'list R' dispatches as the explicit
\* invocation list R with the same options does: the same method and
\* resource and the same request parameters, paging parameters included.
C14_AliasDispatchesAsExplicit ==
    (usesNewOptions /\ request.built) =>
        /\ verb = << "list" >>
        /\ resourceName \in ListAliasResources
        /\ ExplicitRequest.status = "ok"
        /\ request.mapping = ExplicitRequest.parsed

\* C15: FetchService never changes the FetchOptions value of its caller.
C15_CallerOptionsUnchanged == callerOptions = options0

\* C16: for a list invocation with Page > 0 the request carries page equal to
\* the requested page and page_size equal to the requested page size,
\* whatever the three parameter sources supplied for these keys.
C16_PagingOverrides ==
    (request.built /\ verb = << "list" >> /\ options0.Page > 0) =>
        /\ << "page" >> \in DOMAIN request.mapping
        /\ << "page_size" >> \in DOMAIN request.mapping
        /\ request.mapping[<< "page" >>] = Number(options0.Page)
        /\ request.mapping[<< "page_size" >>] = Number(options0.PageSize)

\* the same for invocations that name the verb list themselves
PagingOverridesWithoutAlias == usesNewOptions \/ C16_PagingOverrides

PagingCase ==
    /\ request.built
    /\ ~usesNewOptions
    /\ options0.Page > 0
    /\ << "page" >> \in DOMAIN fileParameter.data \cup DOMAIN jsonParameter.data
    /\ options0.Parameters # << >>

(***************************************************************************)
(* Properties of discoverService's failure                                 *)
(***************************************************************************)
\* some service of the reflected list meets one of the two criteria
SomeMatch ==
    \E i \in 1..Len(services) :
        \/ IsPluginMatch(services[i], dResourceName)
        \/ IsAPIMatch(services[i], dServiceName, dResourceName)

\* C17: given the reflected list, discoverService fails exactly when no
\* service meets the plugin or the versioned-API criterion; the failure is
\* the not-found error naming the short name and the resource name, and a
\* success returns a name of the list.
C17_NotFoundExactly ==
    (dpc = "returned" /\ ~listServicesFails) =>
        /\ discovered.ok <=> SomeMatch
        /\ ~discovered.ok =>
             discovered.err = << "service not found for " >> \o dServiceName
                                \o << "." >> \o dResourceName
        /\ discovered.ok =>
             \E i \in 1..Len(services) : discovered.name = services[i]

C17_Witness ==
    /\ dpc = "returned"
    /\ ~listServicesFails
    /\ Len(services) = MaxServices
    /\ ~discovered.ok
    /\ Contains(discovered.err, dServiceName)
    /\ Contains(discovered.err, dResourceName)

(***************************************************************************)
(* Properties of the missing-parameter error                               *)
(***************************************************************************)
\* the remote call failed with the status 'Required parameter. (key = F)'
RequiredParameterFailure == remoteStatus = RequiredParameter

MissingParameter(field) == << "missing required parameter: " >> \o field

ReportedMissing == HasPrefix(retErr, << "missing required parameter: " >>)

\* a required-parameter status is reported as the missing field F
RequiredParameterNamed ==
    (pc = "returned" /\ RequiredParameterFailure) =>
        retErr = MissingParameter(<< "domain_id" >>)

\* C18: a remote failure with the status 'Required parameter. (key = F)' is
\* returned as the missing-parameter error naming exactly F, and a failure
\* without that status is never reported as a missing parameter.
C18_MissingParameter ==
    pc = "returned" =>
        /\ RequiredParameterFailure => retErr = MissingParameter(<< "domain_id" >>)
        /\ ReportedMissing => RequiredParameterFailure

RequiredParameterCase ==
    /\ pc = "returned"
    /\ RequiredParameterFailure
    /\ streamed
    /\ Len(received) > 0
    /\ retErr = MissingParameter(<< "domain_id" >>)

(***************************************************************************)
(* Properties of the row limit and the column filter                       *)
(***************************************************************************)
\* C19: for a list result and Rows = N the result after limiting is the first
\* N items of the sorted list when N > 0 and the list is longer than N, the
\* unchanged list otherwise, and it is never longer than the list.
C19_RowLimit ==
    spc \in { "limited", "filtered" } =>
        /\ Len(limited) <= Len(sorted)
        /\ postVerb = "list" =>
             IF rows > 0 /\ Len(sorted) > rows
               THEN /\ Len(limited) = rows
                    /\ \A i \in 1..rows : limited[i] = sorted[i]
             ELSE limited = sorted

C19_Witness ==
    /\ spc = "limited"
    /\ postVerb = "list"
    /\ sortBy = "k"
    /\ sorted # results
    /\ rows = 2
    /\ Len(sorted) = 3
    /\ limited = SubSeq(sorted, 1, 2)

\* the field names a column list names
NamedFields == (CHOOSE c \in ColumnCases : c.text = columns).names

\* C20: every projected item holds exactly the named fields that its source
\* item has, each with the source item's value; a named field the item lacks
\* is left out and no other field appears.
C20_ColumnProjection ==
    (spc = "filtered" /\ postVerb = "list" /\ columns # << >>) =>
        /\ Len(filteredResults) = Len(limited)
        /\ \A i \in 1..Len(limited) :
             LET source == limited[i].fields
                 projected == filteredResults[i].fields
             IN  /\ DOMAIN projected = NamedFields \cap DOMAIN source
                 /\ \A f \in DOMAIN projected : projected[f] = source[f]
                 /\ limited[i].isMap => filteredResults[i].isMap

C20_Witness ==
    /\ spc = "filtered"
    /\ postVerb = "list"
    /\ NamedFields = { "k", "zone" }
    /\ Len(limited) = 2
    /\ DOMAIN limited[1].fields = { "id", "k" }
    /\ DOMAIN limited[2].fields = { "id" }
    /\ DOMAIN filteredResults[1].fields = { "k" }
    /\ filteredResults[1].fields["k"] = limited[1].fields["k"]
    /\ DOMAIN filteredResults[2].fields = {}

(***************************************************************************)
(* Properties of the sort step on items that lack the sort field           *)
(***************************************************************************)
HasSortField(item) == sortBy \in DOMAIN item.fields

\* in a sorted result the items holding the sort field come first
HoldersFirst ==
    (spc = "sorted" /\ sortBy # "")
        => \A a, b \in 1..Len(sorted) :
             (HasSortField(sorted[a]) /\ ~HasSortField(sorted[b])) => a < b

\* C21: in a sorted list result every item that has the sort field precedes
\* every item that lacks it, and the items that lack it keep their relative
\* input order.
C21_MissingFieldLast ==
    (spc = "sorted" /\ sortBy # "")
        => \A a, b \in 1..Len(sorted) :
             /\ (HasSortField(sorted[a]) /\ ~HasSortField(sorted[b])) => a < b
             /\ (a < b /\ ~HasSortField(sorted[a]) /\ ~HasSortField(sorted[b]))
                   => InputPos(sorted[a]) < InputPos(sorted[b])

(***************************************************************************)
(* Properties of a server-streaming call that fails                        *)
(***************************************************************************)
\* the stream failed: when it was opened or in a round of the receive loop
StreamFailed == streamed /\ remoteStatus # << >>

\* C22: when receiving fails after k >= 0 messages were read, the invocation
\* returns an error and no result: no message read so far reaches the caller
\* or the presentation.
C22_PartialResultsDiscarded ==
    StreamFailed =>
        /\ jsonBytes = << >>
        /\ respMap = NoResponse
        /\ pc # "print"
        /\ pc = "fetched" => fetchErr # << >>
        /\ pc = "returned" => retErr # << >>

C22_Witness ==
    /\ StreamFailed
    /\ pc = "returned"
    /\ Len(received) = 2
    /\ Len(allResponses) = 2
    /\ HasPrefix(fetchErr, << "failed to receive response: " >>)
    /\ retErr # << >>

(***************************************************************************)
(* Properties of the gateway fallback                                      *)
(***************************************************************************)
\* the configured endpoint is an HTTP(S) gateway
IsGateway == ~HasPrefix(endpoint, GrpcPrefix) /\ ~HasPrefix(endpoint, GrpcSSLPrefix)

\* the gateway's host labels and port as its URL scheme://L1.L2...Ln[:port]
\* states them
GatewayAddress == SubSeq(apiEndpoint, 5, Len(apiEndpoint))

GatewayLabels ==
    IF Contains(GatewayAddress, << ":" >>)
      THEN SubSeq(GatewayAddress, 1, Index(GatewayAddress, << ":" >>) - 1)
    ELSE GatewayAddress

GatewayPort ==
    IF Contains(GatewayAddress, << ":" >>)
      THEN SubSeq(GatewayAddress, Index(GatewayAddress, << ":" >>), Len(GatewayAddress))
    ELSE << ":", "443" >>

GatewayFallback == ConvertServiceName(serviceName) \o Tail(GatewayLabels) \o GatewayPort

\* C23: when the bootstrap service is unavailable for an HTTP(S) gateway, the
\* address dialed is the gateway's host with its first label replaced by the
\* canonical service name and the other labels kept, followed by the
\* gateway's port when it states one and by 443 otherwise.
C23_GatewayFallback ==
    (IsGateway /\ ~hasIdentityService) =>
        /\ \A i \in 1..Len(dialLog) : dialLog[i].target = GatewayFallback
        /\ FetchResolved => DialedBy("fetchJSONResponse") = { GatewayFallback }

C23_Witness ==
    /\ IsGateway
    /\ ~hasIdentityService
    /\ FetchResolved
    /\ serviceName = << "cost_analysis" >>
    /\ DialedBy("FetchService")
         = { << "cost-analysis", ".", "example", ".", "com", ":", "8080" >> }
    /\ DialedBy("fetchJSONResponse")
         = { << "cost-analysis", ".", "example", ".", "com", ":", "8080" >> }

C23_WitnessDefaultPort ==
    /\ IsGateway
    /\ ~hasIdentityService
    /\ DialedBy("fetchJSONResponse")
         = { << "monitoring", ".", "api", ".", "example", ".", "com", ":", "443" >> }

(***************************************************************************)
(* Properties of malformed endpoints                                       *)
(***************************************************************************)
\* the host of address has fewer dot-separated parts than least
TooFewLabels(address, least) == Len(Split(address, << "." >>)) < least

\* the resolution path taken and the endpoint it derives the host from: a
\* secure address needs the four parts lines 221, 519 and 548 ask for, a
\* gateway host a label besides the one that is replaced
TooFewOnPath ==
    IF hasIdentityService
      THEN TooFewLabels(TrimPrefix(identityEndpoint, GrpcSSLPrefix), 4)
    ELSE IF HasPrefix(endpoint, GrpcSSLPrefix)
      THEN TooFewLabels(TrimPrefix(endpoint, GrpcSSLPrefix), 4)
    ELSE TooFewLabels(GatewayAddress, 2)

MalformedEndpoint ==
    /\ ~HasPrefix(endpoint, GrpcPrefix)
    /\ apiEndpoint # << >>
    /\ pc \notin { "identity", "exited" }
    /\ TooFewOnPath

ConfigurationError ==
    \/ HasPrefix(retErr, << "invalid endpoint format: " >>)
    \/ HasPrefix(retErr, << "invalid API endpoint format: " >>)

\* the bootstrap-derived path alone: a short identity endpoint is refused
\* before anything is dialed
MalformedIdentityRefused ==
    (MalformedEndpoint /\ hasIdentityService) =>
        /\ dialLog = << >>
        /\ pc = "returned" => ConfigurationError

\* C24: an endpoint with too few DNS labels fails with a configuration error
\* on every resolution path (bootstrap-derived secure address, direct secure
\* address, gateway fallback), and no connection is dialed.
C24_MalformedEndpointRefused ==
    MalformedEndpoint =>
        /\ dialLog = << >>
        /\ pc = "returned" => ConfigurationError

(***************************************************************************)
(* Properties of the order of the post-processing steps                    *)
(***************************************************************************)
\* no item of list comes after an item that the comparison of lines 325-352
\* puts behind it
OrderedBy(list, by) ==
    \A a, b \in 1..Len(list) : a < b => less(list[b], list[a], by) # "true"

\* list holds the items of results, each once, with every field they had
Rearranged(list) ==
    /\ Len(list) = Len(results)
    /\ \A j \in 1..Len(results) :
         Cardinality({ i \in 1..Len(list) : list[i] = results[j] })
           = Cardinality({ i \in 1..Len(results) : results[i] = results[j] })

\* C25: the steps run in the order sort, row limit, column projection: the
\* rows kept are the first N of the sorted list, and the sort compares the
\* items with all their fields, also when the sort field is not projected.
C25_SortLimitProject ==
    /\ spc \in { "format", "sort", "sorted", "panic", "returned" } => limited = << >>
    /\ spc \in { "format", "sort", "sorted", "panic", "returned", "limited" }
         => filteredResults = << >>
    /\ (spc \in { "sorted", "limited", "filtered" } /\ postVerb = "list") =>
         /\ Rearranged(sorted)
         /\ sortBy # "" => OrderedBy(sorted, sortBy)
    /\ (spc \in { "limited", "filtered" } /\ postVerb = "list") =>
         limited = SubSeq(sorted, 1, Len(limited))
    /\ (spc = "filtered" /\ postVerb = "list") =>
         /\ Len(filteredResults) = Len(limited)
         /\ \A i \in 1..Len(limited) :
              \A f \in DOMAIN filteredResults[i].fields :
                 /\ f \in DOMAIN limited[i].fields
                 /\ filteredResults[i].fields[f] = limited[i].fields[f]

C25_Witness ==
    /\ spc = "filtered"
    /\ postVerb = "list"
    /\ sortBy = "k"
    /\ columns = << "id" >>
    /\ rows = 2
    /\ Len(results) = 3
    /\ sorted # results
    /\ limited = SubSeq(sorted, 1, 2)
    /\ limited # SubSeq(results, 1, 2)
    /\ \A i \in 1..2 : /\ DOMAIN filteredResults[i].fields = { "id" }
                       /\ filteredResults[i].fields["id"] = limited[i].fields["id"]

(***************************************************************************)
(* Properties of the sort step on values of mixed types                    *)
(***************************************************************************)
\* C26: sorting by a field never panics: for every list result, also when two
\* items hold values of different dynamic types for the sort field or an item
\* is not a map, the sort step completes.
C26_SortNeverPanics == spc # "panic"

(***************************************************************************)
(* Properties of the two resolutions of the dial address                   *)
(***************************************************************************)
\* C27: for every endpoint configuration and service name the address that
\* FetchService dials and the one that fetchJSONResponse dials agree: the
\* same host:port, or an endpoint-format error in both.
C27_SameDialAddress ==
    FetchResolved => DialedBy("fetchJSONResponse") = DialedBy("FetchService")

\* the two resolutions agree when the endpoint is a local one, a gateway, or
\* an identity service is reported
SameDialAddressElsewhere ==
    (FetchResolved /\ (hasIdentityService \/ ~HasPrefix(endpoint, GrpcSSLPrefix)))
        => DialedBy("fetchJSONResponse") = DialedBy("FetchService")

(***************************************************************************)
(* Properties of the pager                                                 *)
(***************************************************************************)
\* whenever a page was drawn its slice lies within the filtered items
SliceWithinBounds ==
    tpc = "key" => (0 <= startIdx /\ startIdx <= endIdx /\ endIdx <= Len(tableFiltered))

\* with at least one item to show the divisors are positive and the page
\* index is in range
PagerBoundsNonEmpty ==
    (tpc = "key" /\ Len(tableFiltered) > 0) =>
        /\ tablePageSize > 0
        /\ totalPages > 0
        /\ 0 <= currentPage /\ currentPage < totalPages

\* C28: after any sequence of key presses over any result list, also an empty
\* list, a search that matches nothing and no-paging mode, the page size and
\* the page count used as divisors are positive, 0 <= currentPage <
\* totalPages, and start <= end <= number of filtered items.
C28_PagerBounds ==
    /\ tpc # "panic"
    /\ tpc = "key" =>
         /\ tablePageSize > 0
         /\ totalPages > 0
         /\ 0 <= currentPage /\ currentPage < totalPages
         /\ startIdx <= endIdx /\ endIdx <= Len(tableFiltered)

(***************************************************************************)
(* Properties of WatchResource                                             *)
(***************************************************************************)
\* an identifier is printed as new at most once, and never when the initial
\* fetch held it
ReportedOnce ==
    wpc # "idle" =>
        \A id \in WatchIds :
            /\ reportCount[id] <= 1
            /\ id \in initialItems => reportCount[id] = 0

\* a poll whose FetchService returned an error leaves the loop running
ErrorKeepsPolling ==
    (polls > 0 /\ lastPoll = "error") => wpc \in { "watching", "stopped" }

\* C29: each item is reported as new at most once over all polls and never
\* when the initial fetch held it; the watch keeps polling after a poll that
\* fails and stops only on an interrupt signal.
C29_WatchReportsOnceUntilInterrupt ==
    wpc # "idle" =>
        /\ \A id \in WatchIds :
              /\ reportCount[id] <= 1
              /\ id \in initialItems => reportCount[id] = 0
        /\ (polls > 0 /\ lastPoll \in { "error", "exit" })
              => wpc \in { "watching", "stopped" }
        /\ (polls > 0 /\ wpc # "watching") => (wpc = "stopped" /\ interrupted)

(***************************************************************************)
(* Properties of the loader goroutine                                      *)
(***************************************************************************)
\* loadCachedEndpoints has returned to the goroutine
LoadReturned == lpc \in { "assign", "send" }

\* the goroutine ends when init is still waiting as it reaches its send
LoaderExitsWhenAwaited == [][(lpc = "send" /\ lpc' # "send") => lpc' = "exited"]_vars

\* C30: the loader goroutine always terminates: once loadCachedEndpoints has
\* returned its completion signal is delivered and the goroutine exits, also
\* when init has taken the timeout branch.
C30_LoaderTerminates == LoadReturned ~> (lpc = "exited")

====
